---- MODULE Spec2Model ----
(***************************************************************************)
(* Model of the protein data reconciliation layer of While-1-Amino:        *)
(* ProteinDataService (data/protein_data_service.py) and the adapters it   *)
(* calls (data/ncbi_api.py, data/structure_api.py, data/disease_drug_api.py*)
(* data/interaction_api.py, data/uniprot_api.py).                          *)
(*                                                                         *)
(* Python values are represented as follows:                               *)
(*   str   a tuple of one-character strings ("" is <<>>)                   *)
(*   list  a tuple ([] is <<>>)                                            *)
(*   dict  a function from key names to values (a TLA+ record)             *)
(*   int   an integer                                                      *)
(*   None  <<>> where a list or a str is expected                          *)
(* A list found where a dict is expected is the record [pylist |-> items]. *)
(* Scores of the static disease table are kept in tenths (0.9 is 9).       *)
(***************************************************************************)
EXTENDS Integers, Sequences, FiniteSets, TLC

VARIABLES cache, first_ret, last, vs, ss, dd, ad, ch, nt, th, ps, vz, rt

vars == <<cache, first_ret, last, vs, ss, dd, ad, ch, nt, th, ps, vz, rt>>

----------------------------------------------------------------------------
(* str and dict primitives *)

UPPERCASE == <<"A","B","C","D","E","F","G","H","I","J","K","L","M","N","O","P","Q","R","S","T","U","V","W","X","Y","Z">>
LOWERCASE == <<"a","b","c","d","e","f","g","h","i","j","k","l","m","n","o","p","q","r","s","t","u","v","w","x","y","z">>
DIGITS == <<"0","1","2","3","4","5","6","7","8","9">>
WHITESPACE == {" ", "\n", "\t"}

InSeq(c, s) == \E i \in 1..Len(s) : s[i] = c
IndexOf(c, s) == CHOOSE i \in 1..Len(s) : s[i] = c

LowerCh(c) == IF InSeq(c, UPPERCASE) THEN LOWERCASE[IndexOf(c, UPPERCASE)] ELSE c
UpperCh(c) == IF InSeq(c, LOWERCASE) THEN UPPERCASE[IndexOf(c, LOWERCASE)] ELSE c
Lower(s) == [i \in 1..Len(s) |-> LowerCh(s[i])]
Upper(s) == [i \in 1..Len(s) |-> UpperCh(s[i])]

StartsWith(s, p) == Len(s) >= Len(p) /\ SubSeq(s, 1, Len(p)) = p
EndsWith(s, p) == Len(s) >= Len(p) /\ SubSeq(s, Len(s) - Len(p) + 1, Len(s)) = p
\* Python `p in s` on two str
Contains(s, p) == \E i \in 0..(Len(s) - Len(p)) : SubSeq(s, i + 1, i + Len(p)) = p

RECURSIVE LStrip(_)
LStrip(s) == IF s /= <<>> /\ Head(s) \in WHITESPACE THEN LStrip(Tail(s)) ELSE s
RECURSIVE RStrip(_)
RStrip(s) == IF s /= <<>> /\ s[Len(s)] \in WHITESPACE THEN RStrip(SubSeq(s, 1, Len(s) - 1)) ELSE s
Strip(s) == RStrip(LStrip(s))

Has(d, k) == k \in DOMAIN d
Get(d, k, dflt) == IF k \in DOMAIN d THEN d[k] ELSE dflt
Put(d, k, v) == [x \in (DOMAIN d) \cup {k} |-> IF x = k THEN v ELSE d[x]]
\* Python truth value of the value stored under key k ("length" holds an int)
Truthy(k, v) == IF k = "length" THEN v /= 0 ELSE v /= <<>>
IsDict(v) == ~Has(v, "pylist")

\* Python's None where a dict is expected, and the values an `if value and ...`
\* test lets through
PyNone == [none |-> TRUE]
IsNone(v) == Has(v, "none")
IsMapping(v) == IsDict(v) /\ ~IsNone(v)
PyTruthy(v) ==
  /\ ~IsNone(v)
  /\ DOMAIN v /= {}
  /\ (Has(v, "pylist") => v.pylist /= <<>>)

\* static tables are dicts in insertion order: tuples of <<key, value>>
TableHas(t, k) == \E i \in 1..Len(t) : t[i][1] = k
TableGet(t, k) == t[CHOOSE i \in 1..Len(t) : t[i][1] = k][2]

\* outcome of a call made by the service: a returned value or a raised exception
NotCalled == [k |-> "not_called"]
Raise == [k |-> "raise"]
Ret(v) == [k |-> "ret", v |-> v]

S_EXC == <<"b","o","o","m">>

----------------------------------------------------------------------------
(* data/ncbi_api.py *)

NCBI_COMMON_PROTEINS ==
  << <<<<"T","P","5","3">>, <<"P","0","4","6","3","7">>>>,
     <<<<"B","R","C","A","1">>, <<"P","3","8","3","9","8">>>>,
     <<<<"B","R","C","A","2">>, <<"P","5","1","5","8","7">>>>,
     <<<<"E","G","F","R">>, <<"P","0","0","5","3","3">>>>,
     <<<<"I","N","S">>, <<"P","0","1","3","0","8">>>>,
     <<<<"A","P","P">>, <<"P","0","5","0","6","7">>>>,
     <<<<"A","P","O","E">>, <<"P","0","2","6","4","9">>>>,
     <<<<"T","N","F">>, <<"P","0","1","3","7","5">>>>,
     <<<<"I","L","6">>, <<"P","0","5","2","3","1">>>>,
     <<<<"A","L","B">>, <<"P","0","2","7","6","8">>>>,
     <<<<"K","R","A","S">>, <<"P","0","1","1","1","6">>>>,
     <<<<"P","T","E","N">>, <<"P","6","0","4","8","4">>>>,
     <<<<"V","E","G","F","A">>, <<"P","1","5","6","9","2">>>>,
     <<<<"S","O","D","1">>, <<"P","0","0","4","4","1">>>>,
     <<<<"C","F","T","R">>, <<"P","1","3","5","6","9">>>> >>

COMMON_GENE_IDS ==
  << <<<<"T","P","5","3">>, <<"7","1","5","7">>>>,
     <<<<"B","R","C","A","1">>, <<"6","7","2">>>>,
     <<<<"B","R","C","A","2">>, <<"6","7","5">>>>,
     <<<<"E","G","F","R">>, <<"1","9","5","6">>>>,
     <<<<"I","N","S">>, <<"3","6","3","0">>>>,
     <<<<"A","P","P">>, <<"3","5","1">>>>,
     <<<<"A","P","O","E">>, <<"3","4","8">>>>,
     <<<<"T","N","F">>, <<"7","1","2","4">>>>,
     <<<<"I","L","6">>, <<"3","5","6","9">>>>,
     <<<<"A","L","B">>, <<"2","1","3">>>>,
     <<<<"K","R","A","S">>, <<"3","8","4","5">>>>,
     <<<<"P","T","E","N">>, <<"5","7","2","8">>>>,
     <<<<"V","E","G","F","A">>, <<"7","4","2","2">>>>,
     <<<<"S","O","D","1">>, <<"6","6","4","7">>>>,
     <<<<"C","F","T","R">>, <<"1","0","8","0">>>> >>

COMMON_DESCRIPTIONS ==
  << <<<<"T","P","5","3">>,
       <<"T","u","m","o","r"," ","p","r","o","t","e","i","n"," ","p","5","3"," ","i","s"," ","a"," ","t","u","m","o","r"," ","s","u","p","p","r","e","s","s","o","r"," ","p","r","o","t","e","i","n"," ","t","h","a","t"," ","r","e","g","u","l","a","t","e","s"," ","c","e","l","l"," ","c","y","c","l","e"," ","a","n","d"," ","f","u","n","c","t","i","o","n","s"," ","a","s"," ","a"," ","t","u","m","o","r"," ","s","u","p","p","r","e","s","s","o","r","."," ","I","t"," ","p","l","a","y","s"," ","a"," ","c","r","u","c","i","a","l"," ","r","o","l","e"," ","i","n"," ","p","r","e","v","e","n","t","i","n","g"," ","c","a","n","c","e","r"," ","f","o","r","m","a","t","i","o","n",".">>>>,
     <<<<"B","R","C","A","1">>,
       <<"B","r","e","a","s","t"," ","c","a","n","c","e","r"," ","t","y","p","e"," ","1"," ","s","u","s","c","e","p","t","i","b","i","l","i","t","y"," ","p","r","o","t","e","i","n"," ","i","s"," ","i","n","v","o","l","v","e","d"," ","i","n"," ","D","N","A"," ","r","e","p","a","i","r",","," ","c","e","l","l"," ","c","y","c","l","e"," ","c","h","e","c","k","p","o","i","n","t"," ","c","o","n","t","r","o","l",","," ","a","n","d"," ","m","a","i","n","t","e","n","a","n","c","e"," ","o","f"," ","g","e","n","o","m","i","c"," ","s","t","a","b","i","l","i","t","y",".">>>>,
     <<<<"B","R","C","A","2">>,
       <<"B","r","e","a","s","t"," ","c","a","n","c","e","r"," ","t","y","p","e"," ","2"," ","s","u","s","c","e","p","t","i","b","i","l","i","t","y"," ","p","r","o","t","e","i","n"," ","i","s"," ","i","n","v","o","l","v","e","d"," ","i","n"," ","t","h","e"," ","r","e","p","a","i","r"," ","o","f"," ","c","h","r","o","m","o","s","o","m","a","l"," ","d","a","m","a","g","e"," ","w","i","t","h"," ","a","n"," ","i","m","p","o","r","t","a","n","t"," ","r","o","l","e"," ","i","n"," ","t","h","e"," ","e","r","r","o","r","-","f","r","e","e"," ","r","e","p","a","i","r"," ","o","f"," ","D","N","A"," ","d","o","u","b","l","e"," ","s","t","r","a","n","d"," ","b","r","e","a","k","s",".">>>>,
     <<<<"E","G","F","R">>,
       <<"E","p","i","d","e","r","m","a","l"," ","g","r","o","w","t","h"," ","f","a","c","t","o","r"," ","r","e","c","e","p","t","o","r"," ","i","s"," ","a"," ","t","r","a","n","s","m","e","m","b","r","a","n","e"," ","p","r","o","t","e","i","n"," ","t","h","a","t"," ","i","s"," ","a","c","t","i","v","a","t","e","d"," ","b","y"," ","b","i","n","d","i","n","g"," ","o","f"," ","i","t","s"," ","s","p","e","c","i","f","i","c"," ","l","i","g","a","n","d","s","."," ","I","t"," ","p","l","a","y","s"," ","a"," ","c","r","u","c","i","a","l"," ","r","o","l","e"," ","i","n"," ","c","e","l","l"," ","s","i","g","n","a","l","i","n","g"," ","p","a","t","h","w","a","y","s",".">>>>,
     <<<<"I","N","S">>,
       <<"I","n","s","u","l","i","n"," ","i","s"," ","a"," ","p","e","p","t","i","d","e"," ","h","o","r","m","o","n","e"," ","p","r","o","d","u","c","e","d"," ","b","y"," ","b","e","t","a"," ","c","e","l","l","s"," ","o","f"," ","t","h","e"," ","p","a","n","c","r","e","a","t","i","c"," ","i","s","l","e","t","s","."," ","I","t"," ","r","e","g","u","l","a","t","e","s"," ","t","h","e"," ","m","e","t","a","b","o","l","i","s","m"," ","o","f"," ","c","a","r","b","o","h","y","d","r","a","t","e","s",","," ","f","a","t","s"," ","a","n","d"," ","p","r","o","t","e","i","n",".">>>>,
     <<<<"A","P","P">>,
       <<"A","m","y","l","o","i","d"," ","p","r","e","c","u","r","s","o","r"," ","p","r","o","t","e","i","n"," ","i","s"," ","a","n"," ","i","n","t","e","g","r","a","l"," ","m","e","m","b","r","a","n","e"," ","p","r","o","t","e","i","n"," ","e","x","p","r","e","s","s","e","d"," ","i","n"," ","m","a","n","y"," ","t","i","s","s","u","e","s"," ","a","n","d"," ","c","o","n","c","e","n","t","r","a","t","e","d"," ","i","n"," ","t","h","e"," ","s","y","n","a","p","s","e","s"," ","o","f"," ","n","e","u","r","o","n","s","."," ","I","t"," ","i","s"," ","c","l","e","a","v","e","d"," ","b","y"," ","s","e","c","r","e","t","a","s","e","s"," ","t","o"," ","f","o","r","m"," ","a"," ","n","u","m","b","e","r"," ","o","f"," ","p","e","p","t","i","d","e","s",".">>>>,
     <<<<"A","P","O","E">>,
       <<"A","p","o","l","i","p","o","p","r","o","t","e","i","n"," ","E"," ","i","s"," ","a"," ","c","l","a","s","s"," ","o","f"," ","a","p","o","l","i","p","o","p","r","o","t","e","i","n"," ","f","o","u","n","d"," ","i","n"," ","t","h","e"," ","c","h","y","l","o","m","i","c","r","o","n"," ","a","n","d"," ","I","n","t","e","r","m","e","d","i","a","t","e","-","d","e","n","s","i","t","y"," ","l","i","p","o","p","r","o","t","e","i","n"," ","t","h","a","t"," ","i","s"," ","e","s","s","e","n","t","i","a","l"," ","f","o","r"," ","t","h","e"," ","n","o","r","m","a","l"," ","c","a","t","a","b","o","l","i","s","m"," ","o","f"," ","t","r","i","g","l","y","c","e","r","i","d","e","-","r","i","c","h"," ","l","i","p","o","p","r","o","t","e","i","n"," ","c","o","n","s","t","i","t","u","e","n","t","s",".">>>>,
     <<<<"T","N","F">>,
       <<"T","u","m","o","r"," ","n","e","c","r","o","s","i","s"," ","f","a","c","t","o","r"," ","i","s"," ","a"," ","c","y","t","o","k","i","n","e"," ","t","h","a","t"," ","i","s"," ","i","n","v","o","l","v","e","d"," ","i","n"," ","s","y","s","t","e","m","i","c"," ","i","n","f","l","a","m","m","a","t","i","o","n"," ","a","n","d"," ","i","s"," ","o","n","e"," ","o","f"," ","t","h","e"," ","c","y","t","o","k","i","n","e","s"," ","t","h","a","t"," ","r","e","g","u","l","a","t","e"," ","t","h","e"," ","a","c","u","t","e"," ","p","h","a","s","e"," ","r","e","a","c","t","i","o","n",".">>>>,
     <<<<"I","L","6">>,
       <<"I","n","t","e","r","l","e","u","k","i","n"," ","6"," ","i","s"," ","a","n"," ","i","n","t","e","r","l","e","u","k","i","n"," ","t","h","a","t"," ","a","c","t","s"," ","a","s"," ","b","o","t","h"," ","a"," ","p","r","o","-","i","n","f","l","a","m","m","a","t","o","r","y"," ","c","y","t","o","k","i","n","e"," ","a","n","d"," ","a","n"," ","a","n","t","i","-","i","n","f","l","a","m","m","a","t","o","r","y"," ","m","y","o","k","i","n","e",".">>>>,
     <<<<"A","L","B">>,
       <<"A","l","b","u","m","i","n"," ","i","s"," ","a"," ","f","a","m","i","l","y"," ","o","f"," ","g","l","o","b","u","l","a","r"," ","p","r","o","t","e","i","n","s",","," ","t","h","e"," ","m","o","s","t"," ","c","o","m","m","o","n"," ","o","f"," ","w","h","i","c","h"," ","a","r","e"," ","t","h","e"," ","s","e","r","u","m"," ","a","l","b","u","m","i","n","s","."," ","T","h","e","y"," ","a","r","e"," ","c","o","m","m","o","n","l","y"," ","f","o","u","n","d"," ","i","n"," ","b","l","o","o","d"," ","p","l","a","s","m","a",".">>>>,
     <<<<"K","R","A","S">>,
       <<"K","R","A","S"," ","i","s"," ","a"," ","p","r","o","t","e","i","n"," ","t","h","a","t"," ","i","n"," ","h","u","m","a","n","s"," ","i","s"," ","e","n","c","o","d","e","d"," ","b","y"," ","t","h","e"," ","K","R","A","S"," ","g","e","n","e","."," ","I","t"," ","i","s"," ","i","n","v","o","l","v","e","d"," ","i","n"," ","r","e","g","u","l","a","t","i","n","g"," ","c","e","l","l"," ","d","i","v","i","s","i","o","n"," ","a","s"," ","p","a","r","t"," ","o","f"," ","t","h","e"," ","R","A","S","/","M","A","P","K"," ","p","a","t","h","w","a","y",".">>>>,
     <<<<"P","T","E","N">>,
       <<"P","h","o","s","p","h","a","t","a","s","e"," ","a","n","d"," ","t","e","n","s","i","n"," ","h","o","m","o","l","o","g"," ","i","s"," ","a"," ","p","r","o","t","e","i","n"," ","t","h","a","t",","," ","i","n"," ","h","u","m","a","n","s",","," ","i","s"," ","e","n","c","o","d","e","d"," ","b","y"," ","t","h","e"," ","P","T","E","N"," ","g","e","n","e","."," ","I","t"," ","a","c","t","s"," ","a","s"," ","a"," ","t","u","m","o","r"," ","s","u","p","p","r","e","s","s","o","r"," ","g","e","n","e",".">>>>,
     <<<<"V","E","G","F","A">>,
       <<"V","a","s","c","u","l","a","r"," ","e","n","d","o","t","h","e","l","i","a","l"," ","g","r","o","w","t","h"," ","f","a","c","t","o","r"," ","A"," ","i","s"," ","a"," ","p","r","o","t","e","i","n"," ","t","h","a","t"," ","i","n"," ","h","u","m","a","n","s"," ","i","s"," ","e","n","c","o","d","e","d"," ","b","y"," ","t","h","e"," ","V","E","G","F","A"," ","g","e","n","e","."," ","I","t"," ","s","t","i","m","u","l","a","t","e","s"," ","a","n","g","i","o","g","e","n","e","s","i","s",","," ","v","a","s","c","u","l","o","g","e","n","e","s","i","s"," ","a","n","d"," ","e","n","d","o","t","h","e","l","i","a","l"," ","c","e","l","l"," ","g","r","o","w","t","h",".">>>>,
     <<<<"S","O","D","1">>,
       <<"S","u","p","e","r","o","x","i","d","e"," ","d","i","s","m","u","t","a","s","e"," ","1"," ","i","s"," ","a","n"," ","e","n","z","y","m","e"," ","t","h","a","t"," ","i","n"," ","h","u","m","a","n","s"," ","i","s"," ","e","n","c","o","d","e","d"," ","b","y"," ","t","h","e"," ","S","O","D","1"," ","g","e","n","e","."," ","I","t"," ","c","o","n","v","e","r","t","s"," ","h","a","r","m","f","u","l"," ","s","u","p","e","r","o","x","i","d","e"," ","r","a","d","i","c","a","l","s"," ","t","o"," ","h","y","d","r","o","g","e","n"," ","p","e","r","o","x","i","d","e"," ","a","n","d"," ","o","x","y","g","e","n",".">>>>,
     <<<<"C","F","T","R">>,
       <<"C","y","s","t","i","c"," ","f","i","b","r","o","s","i","s"," ","t","r","a","n","s","m","e","m","b","r","a","n","e"," ","c","o","n","d","u","c","t","a","n","c","e"," ","r","e","g","u","l","a","t","o","r"," ","i","s"," ","a"," ","m","e","m","b","r","a","n","e"," ","p","r","o","t","e","i","n"," ","a","n","d"," ","c","h","l","o","r","i","d","e"," ","c","h","a","n","n","e","l"," ","i","n"," ","v","e","r","t","e","b","r","a","t","e","s"," ","t","h","a","t"," ","i","s"," ","e","n","c","o","d","e","d"," ","b","y"," ","t","h","e"," ","C","F","T","R"," ","g","e","n","e",".">>>> >>

S_NCBI == <<"N","C","B","I">>
S_UniProt == <<"U","n","i","P","r","o","t">>
S_GENE_ == <<"G","E","N","E","_">>
S_Combined == <<"C","o","m","b","i","n","e","d">>

\* the description of the first table gene equal to gene_symbol, ignoring case
RECURSIVE DescriptionFor(_, _)
DescriptionFor(gene_symbol, i) ==
  IF i > Len(COMMON_DESCRIPTIONS) THEN <<>>
  ELSE IF Lower(COMMON_DESCRIPTIONS[i][1]) = Lower(gene_symbol) THEN COMMON_DESCRIPTIONS[i][2]
  ELSE DescriptionFor(gene_symbol, i + 1)

GeneratedSummary(protein_name, gene_symbol, organism, function) ==
  Strip(protein_name
        \o (IF gene_symbol /= <<>> THEN <<" ","(">> \o gene_symbol \o <<")">> ELSE <<>>)
        \o (IF organism /= <<>> THEN <<" ","i","s"," ","a"," ","p","r","o","t","e","i","n"," ","f","o","u","n","d"," ","i","n"," ">> \o organism \o <<".">>
            ELSE <<" ","i","s"," ","a"," ","p","r","o","t","e","i","n",".">>)
        \o (IF function /= <<>> THEN <<" ">> \o function ELSE <<>>))

format_protein_data(protein_data) ==
  LET protein_name == Get(protein_data, "protein_name", <<>>)
      gene_symbol == Get(protein_data, "gene_symbol", <<>>)
      organism == Get(protein_data, "organism", <<>>)
      function0 == Get(protein_data, "function", <<>>)
      summary0 == Get(protein_data, "summary", <<>>)
      summary == IF summary0 = <<>> \/ summary0 = protein_name
                 THEN GeneratedSummary(protein_name, gene_symbol, organism, function0)
                 ELSE summary0
      function == IF function0 = <<>> /\ gene_symbol /= <<>>
                  THEN DescriptionFor(gene_symbol, 1)
                  ELSE function0
  IN [uniprot_id |-> Get(protein_data, "accession", <<>>),
      protein_name |-> protein_name,
      gene_symbol |-> gene_symbol,
      gene_names |-> Get(protein_data, "gene_names", <<>>),
      organism |-> organism,
      function |-> function,
      summary |-> summary,
      sequence |-> Get(protein_data, "sequence", <<>>),
      length |-> Get(protein_data, "length", 0),
      subcellular_location |-> Get(protein_data, "subcellular_location", <<>>),
      ec_number |-> Get(protein_data, "ec_number", <<>>),
      data_source |-> S_NCBI]

\* the dict get_protein_by_gene_id builds from an esummary gene record
\* (name, description, summary, organism) when the protein search found nothing
GeneRecord(gene_id, name, description, gsummary, organism, sequence) ==
  [protein_id |-> S_GENE_ \o gene_id,
   protein_name |-> Strip(description),
   gene_symbol |-> name,
   gene_names |-> <<name>>,
   organism |-> organism,
   accession |-> S_GENE_ \o gene_id,
   uniprot_id |-> S_GENE_ \o gene_id,
   length |-> Len(sequence),
   sequence |-> sequence,
   function |-> IF gsummary /= <<>> THEN gsummary
                ELSE description \o <<" ","i","s"," ","a"," ","p","r","o","t","e","i","n","-","c","o","d","i","n","g"," ","g","e","n","e",".">>,
   summary |-> description,
   subcellular_location |-> <<>>,
   data_source |-> S_NCBI]

\* the dict get_protein_by_id builds from an esummary protein record
ProteinRecord(protein_id, accessionversion, title, gene_symbol, organism, comment, sequence) ==
  [protein_id |-> protein_id,
   accession |-> accessionversion,
   uniprot_id |-> accessionversion,
   protein_name |-> title,
   gene_symbol |-> gene_symbol,
   gene_names |-> IF gene_symbol /= <<>> THEN <<gene_symbol>> ELSE <<>>,
   organism |-> organism,
   length |-> Len(sequence),
   sequence |-> sequence,
   function |-> comment,
   summary |-> title,
   subcellular_location |-> <<>>,
   ec_number |-> <<>>,
   data_source |-> S_NCBI]

\* what the two requests of get_uniprot_mapping can answer
MappingNets ==
  { [search |-> "exception", fetch |-> "none", id |-> <<>>],
    [search |-> "status", fetch |-> "none", id |-> <<>>],
    [search |-> "empty", fetch |-> "none", id |-> <<>>],
    [search |-> "ok", fetch |-> "status", id |-> <<>>],
    [search |-> "ok", fetch |-> "no_dbtag", id |-> <<>>],
    [search |-> "ok", fetch |-> "ok", id |-> <<"Q","9","X","Y","Z","1">>],
    [search |-> "ok", fetch |-> "ok", id |-> <<>>] }

get_uniprot_mapping(gene_symbol, net) ==
  IF TableHas(NCBI_COMMON_PROTEINS, gene_symbol)
  THEN [uniprot_id |-> TableGet(NCBI_COMMON_PROTEINS, gene_symbol)]
  ELSE IF net.search = "exception" THEN [error |-> S_EXC]
  ELSE IF net.search = "status"
  THEN [error |-> <<"F","a","i","l","e","d"," ","t","o"," ","g","e","t"," ","g","e","n","e"," ","i","n","f","o",":"," ","5","0","0">>]
  ELSE IF net.search = "empty"
  THEN [error |-> <<"N","o"," ","g","e","n","e"," ","f","o","u","n","d"," ","f","o","r"," ">> \o gene_symbol]
  ELSE IF net.fetch = "status"
  THEN [error |-> <<"F","a","i","l","e","d"," ","t","o"," ","g","e","t"," ","g","e","n","e"," ","d","e","t","a","i","l","s",":"," ","5","0","0">>]
  ELSE IF net.fetch = "ok"
  THEN [uniprot_id |-> net.id]
  ELSE [error |-> <<"N","o"," ","U","n","i","P","r","o","t"," ","I","D"," ","f","o","u","n","d"," ","f","o","r"," ">> \o gene_symbol]

----------------------------------------------------------------------------
(* data/structure_api.py *)

VALID_SOURCES == { <<"p","d","b">>, <<"a","l","p","h","a","f","o","l","d">> }

IsDigit(c) == InSeq(c, DIGITS)
IsUpper(c) == InSeq(c, UPPERCASE)
IsLower(c) == InSeq(c, LOWERCASE)
IsAlnum(c) == IsDigit(c) \/ IsUpper(c) \/ IsLower(c)

\* where `$` of a pattern matches after n characters: at the end of the
\* string, or just before a newline that ends the string
DollarAt(s, n) == Len(s) = n \/ (Len(s) = n + 1 /\ s[n + 1] = "\n")

\* re.match(r'^[0-9][A-Za-z0-9]{3}$', s)
MatchPdbId(s) ==
  /\ Len(s) >= 4
  /\ IsDigit(s[1])
  /\ \A i \in 2..4 : IsAlnum(s[i])
  /\ DollarAt(s, 4)

\* re.match(r'^[A-Z][0-9][A-Z0-9]{3}[0-9]$', s)
MatchUniProtAccession(s) ==
  /\ Len(s) >= 6
  /\ IsUpper(s[1])
  /\ IsDigit(s[2])
  /\ \A i \in 3..5 : IsUpper(s[i]) \/ IsDigit(s[i])
  /\ IsDigit(s[6])
  /\ DollarAt(s, 6)

RaiseValueError == [k |-> "raise", exc |-> "ValueError"]

\* the source validate_structure_info infers from the id; <<>> when it raises
InferSource(id) ==
  IF MatchPdbId(id) THEN <<"p","d","b">>
  ELSE IF MatchUniProtAccession(id) THEN <<"a","l","p","h","a","f","o","l","d">>
  ELSE <<>>

\* an unrecognised source replaced by the one the id's shape gives
validate_structure_info_InfersUnknown(structure_info) ==
  IF ~IsDict(structure_info) THEN RaiseValueError
  ELSE IF ~Has(structure_info, "id") THEN RaiseValueError
  ELSE LET source0 == Lower(Get(structure_info, "source", <<>>))
           source == IF source0 \notin VALID_SOURCES
                     THEN InferSource(structure_info.id) ELSE source0
       IN IF source = <<>> THEN RaiseValueError
          ELSE Ret(Put(structure_info, "source", source))

validate_structure_info(structure_info) ==
  IF ~IsDict(structure_info) THEN RaiseValueError
  ELSE IF ~Has(structure_info, "id") THEN RaiseValueError
  ELSE LET source0 == Lower(Get(structure_info, "source", <<>>))
           source == IF source0 = <<>> THEN InferSource(structure_info.id) ELSE source0
       IN IF source = <<>> THEN RaiseValueError
          ELSE IF source \notin VALID_SOURCES THEN RaiseValueError
          ELSE Ret(Put(structure_info, "source", source))

S_NA == <<"N","/","A">>

\* get_pdb_structure_details: answer is "ok" (200 with an entry that has a
\* method and a title), "status" (not 200) or "exception"
get_pdb_structure_details(pdb_id, answer) ==
  IF answer = "ok"
  THEN [basic_info |-> [method |-> <<"X","-","R","A","Y"," ","D","I","F","F","R","A","C","T","I","O","N">>, resolution |-> S_NA,
                        title |-> <<"S","t","r","u","c","t","u","r","e"," ">> \o pdb_id],
        assembly |-> [oligomeric_state |-> <<>>, details |-> <<>>, method |-> <<>>],
        symmetry |-> [type |-> <<>>, symbol |-> <<>>, oligomeric_state |-> <<>>],
        polymer |-> [composition |-> <<>>, entity_types |-> <<>>,
                     atom_count |-> 0, monomer_count |-> 0],
        viewer_url |-> <<"h","t","t","p","s",":","/","/","w","w","w",".","r","c","s","b",".","o","r","g","/","s","t","r","u","c","t","u","r","e","/">> \o pdb_id]
  ELSE IF answer = "status"
  THEN [error |-> <<"F","a","i","l","e","d"," ","t","o"," ","r","e","t","r","i","e","v","e"," ","P","D","B"," ","d","a","t","a",":"," ","4","0","4">>]
  ELSE [error |-> S_EXC]

\* the entry tagged with the archive's name instead of a valid source
PdbEntry_WrongSource(pdb_id, structure_data) ==
  [id |-> pdb_id,
   source |-> <<"r","c","s","b">>,
   method |-> structure_data.basic_info.method,
   resolution |-> structure_data.basic_info.resolution,
   title |-> structure_data.basic_info.title,
   assembly |-> structure_data.assembly,
   symmetry |-> structure_data.symmetry,
   polymer |-> structure_data.polymer,
   viewer_url |-> structure_data.viewer_url]

PdbEntry(pdb_id, structure_data) ==
  [id |-> pdb_id,
   source |-> <<"p","d","b">>,
   method |-> structure_data.basic_info.method,
   resolution |-> structure_data.basic_info.resolution,
   title |-> structure_data.basic_info.title,
   assembly |-> structure_data.assembly,
   symmetry |-> structure_data.symmetry,
   polymer |-> structure_data.polymer,
   viewer_url |-> structure_data.viewer_url]

AlphaFoldEntry(uniprot_id) ==
  [id |-> uniprot_id,
   source |-> <<"a","l","p","h","a","f","o","l","d">>,
   method |-> <<"A","I"," ","P","r","e","d","i","c","t","i","o","n">>,
   resolution |-> S_NA,
   title |-> <<"A","l","p","h","a","F","o","l","d"," ","p","r","e","d","i","c","t","e","d"," ","s","t","r","u","c","t","u","r","e"," ","f","o","r"," ">> \o uniprot_id,
   assembly |-> [oligomeric_state |-> <<"P","r","e","d","i","c","t","e","d"," ","m","o","n","o","m","e","r">>],
   symmetry |-> [type |-> <<"P","r","e","d","i","c","t","e","d">>, oligomeric_state |-> <<"M","o","n","o","m","e","r">>],
   polymer |-> [composition |-> <<"P","r","e","d","i","c","t","e","d"," ","p","r","o","t","e","i","n">>],
   viewer_url |-> <<"h","t","t","p","s",":","/","/","a","l","p","h","a","f","o","l","d",".","e","b","i",".","a","c",".","u","k","/","e","n","t","r","y","/">> \o uniprot_id]

\* append a validated entry, or record the validation error and go on
AddValidated(acc, structure_info, label) ==
  LET v == validate_structure_info(structure_info)
  IN IF v.k = "ret"
     THEN [acc EXCEPT !.structures = Append(@, v.v)]
     ELSE [acc EXCEPT !.errors = Append(@, <<"I","n","v","a","l","i","d"," ","s","t","r","u","c","t","u","r","e"," ","i","n","f","o"," ","f","o","r"," ">> \o label)]

\* the loop over pdb_results["result_set"]; a result without "identifier"
\* raises KeyError out of get_structure_summary
RECURSIVE PdbLoop(_, _, _)
PdbLoop(result_set, details, acc) ==
  IF result_set = <<>> \/ acc.raised THEN acc
  ELSE LET result == Head(result_set) IN
       IF ~Has(result, "identifier") THEN [acc EXCEPT !.raised = TRUE]
       ELSE LET pdb_id == result.identifier
                structure_data == get_pdb_structure_details(pdb_id, details[pdb_id])
                asked == [acc EXCEPT !.requests = Append(@, <<"entry", pdb_id>>)]
            IN PdbLoop(Tail(result_set), details,
                       IF ~Has(structure_data, "error")
                       THEN AddValidated(asked, PdbEntry(pdb_id, structure_data), pdb_id)
                       ELSE asked)

SearchUsable(pdb_results) == ~Has(pdb_results, "error") /\ Has(pdb_results, "result_set")

RECURSIVE JoinLines(_)
JoinLines(lines) ==
  IF lines = <<>> THEN <<>>
  ELSE IF Len(lines) = 1 THEN lines[1]
  ELSE lines[1] \o <<"\n">> \o JoinLines(Tail(lines))

\* net.search1, net.search2: what search_pdb returns for the accession and for
\* the gene symbol; net.details: the answer for each PDB id; net.alphafold:
\* what get_alphafold_structure returns
get_structure_summary(uniprot_id, gene_symbol, net) ==
  LET acc0 == [structures |-> <<>>, errors |-> <<>>, raised |-> FALSE,
               requests |-> << <<"search", uniprot_id>> >>]
      acc1 ==
        IF SearchUsable(net.search1)
        THEN PdbLoop(net.search1.result_set, net.details, acc0)
        ELSE LET e1 == IF Has(net.search1, "error")
                       THEN [acc0 EXCEPT !.errors = Append(@, <<"P","D","B"," ","s","e","a","r","c","h"," ","e","r","r","o","r"," ","w","i","t","h"," ","U","n","i","P","r","o","t"," ","I","D",":"," ">> \o net.search1.error)]
                       ELSE acc0
             IN IF gene_symbol /= <<>> /\ e1.structures = <<>>
                THEN LET e2 == [e1 EXCEPT !.requests = Append(@, <<"search", gene_symbol>>)]
                     IN IF SearchUsable(net.search2)
                        THEN PdbLoop(net.search2.result_set, net.details, e2)
                        ELSE IF Has(net.search2, "error")
                        THEN [e2 EXCEPT !.errors = Append(@, <<"P","D","B"," ","s","e","a","r","c","h"," ","e","r","r","o","r"," ","w","i","t","h"," ","g","e","n","e"," ","s","y","m","b","o","l",":"," ">> \o net.search2.error)]
                        ELSE e2
                ELSE e1
      acc2 ==
        IF acc1.raised THEN acc1
        ELSE LET asked == [acc1 EXCEPT !.requests = Append(@, <<"prediction", uniprot_id>>)]
             IN IF ~Has(net.alphafold, "error")
                THEN AddValidated(asked, AlphaFoldEntry(uniprot_id), uniprot_id)
                ELSE [asked EXCEPT !.errors = Append(@, <<"A","l","p","h","a","F","o","l","d"," ","A","P","I"," ","e","r","r","o","r",":"," ">> \o net.alphafold.error)]
  IN IF acc2.raised THEN [ret |-> Raise, requests |-> acc2.requests]
     ELSE IF acc2.structures = <<>>
     THEN [ret |-> Ret([error |-> <<"N","o"," ","v","a","l","i","d"," ","s","t","r","u","c","t","u","r","e","s"," ","f","o","u","n","d"," ","f","o","r"," ","U","n","i","P","r","o","t"," ","I","D",":"," ">> \o uniprot_id
                                  \o <<","," ","G","e","n","e"," ","S","y","m","b","o","l",":"," ">> \o gene_symbol,
                        details |-> IF acc2.errors /= <<>> THEN JoinLines(acc2.errors)
                                    ELSE <<"N","o"," ","s","t","r","u","c","t","u","r","e","s"," ","f","o","u","n","d"," ","a","n","d"," ","n","o"," ","s","p","e","c","i","f","i","c"," ","e","r","r","o","r","s"," ","r","e","p","o","r","t","e","d">>,
                        structures |-> <<>>]),
           requests |-> acc2.requests]
     ELSE [ret |-> Ret([structures |-> acc2.structures, warnings |-> acc2.errors]),
           requests |-> acc2.requests]

----------------------------------------------------------------------------
(* data/interaction_api.py *)

\* a STRING answer: the JSON list the interactions endpoint sends
StringPartners ==
  << [stringId_A |-> <<"9","6","0","6",".","E","N","S","P","0","0","0","0","0","2","6","9","3","0","5">>, stringId_B |-> <<"9","6","0","6",".","E","N","S","P","0","0","0","0","0","2","5","8","1","4","9">>,
      preferredName_A |-> <<"T","P","5","3">>, preferredName_B |-> <<"M","D","M","2">>, score |-> 999] >>

\* answer: "ok" (200), "status" (not 200) or "exception" (transport failure,
\* which get_interactions does not catch)
get_interactions(string_id, answer) ==
  IF string_id = <<>> THEN Ret([error |-> <<"I","n","v","a","l","i","d"," ","S","T","R","I","N","G"," ","I","D">>])
  ELSE IF answer = "exception" THEN Raise
  ELSE IF answer = "ok" THEN Ret([pylist |-> StringPartners])
  ELSE Ret([error |-> <<"F","a","i","l","e","d"," ","t","o"," ","r","e","t","r","i","e","v","e"," ","i","n","t","e","r","a","c","t","i","o","n","s",":"," ","5","0","0">>])

----------------------------------------------------------------------------
(* data/disease_drug_api.py *)

COMMON_DISEASES ==
  << <<<<"T","P","5","3">>,
       << [disease_name |-> <<"L","i","-","F","r","a","u","m","e","n","i"," ","s","y","n","d","r","o","m","e">>, description |-> <<"A"," ","r","a","r","e"," ","a","u","t","o","s","o","m","a","l"," ","d","o","m","i","n","a","n","t"," ","s","y","n","d","r","o","m","e"," ","p","r","e","d","i","s","p","o","s","i","n","g"," ","t","o"," ","m","u","l","t","i","p","l","e"," ","f","o","r","m","s"," ","o","f"," ","c","a","n","c","e","r",".">>, score |-> 9],
          [disease_name |-> <<"C","o","l","o","r","e","c","t","a","l"," ","c","a","n","c","e","r">>, description |-> <<"A"," ","c","o","m","m","o","n"," ","m","a","l","i","g","n","a","n","c","y"," ","a","s","s","o","c","i","a","t","e","d"," ","w","i","t","h"," ","g","e","n","e","t","i","c"," ","a","n","d"," ","e","n","v","i","r","o","n","m","e","n","t","a","l"," ","r","i","s","k"," ","f","a","c","t","o","r","s",".">>, score |-> 8],
          [disease_name |-> <<"B","r","e","a","s","t"," ","c","a","n","c","e","r">>, description |-> <<"A"," ","c","o","m","m","o","n"," ","m","a","l","i","g","n","a","n","c","y"," ","i","n"," ","w","o","m","e","n",".">>, score |-> 7] >> >>,
     <<<<"B","R","C","A","1">>,
       << [disease_name |-> <<"H","e","r","e","d","i","t","a","r","y"," ","b","r","e","a","s","t"," ","a","n","d"," ","o","v","a","r","i","a","n"," ","c","a","n","c","e","r"," ","s","y","n","d","r","o","m","e">>, description |-> <<"A","n"," ","a","u","t","o","s","o","m","a","l"," ","d","o","m","i","n","a","n","t"," ","s","y","n","d","r","o","m","e"," ","a","s","s","o","c","i","a","t","e","d"," ","w","i","t","h"," ","i","n","c","r","e","a","s","e","d"," ","r","i","s","k"," ","o","f"," ","b","r","e","a","s","t"," ","a","n","d"," ","o","v","a","r","i","a","n"," ","c","a","n","c","e","r",".">>, score |-> 9],
          [disease_name |-> <<"B","r","e","a","s","t"," ","c","a","n","c","e","r">>, description |-> <<"A"," ","c","o","m","m","o","n"," ","m","a","l","i","g","n","a","n","c","y"," ","i","n"," ","w","o","m","e","n",".">>, score |-> 9],
          [disease_name |-> <<"O","v","a","r","i","a","n"," ","c","a","n","c","e","r">>, description |-> <<"A"," ","m","a","l","i","g","n","a","n","c","y"," ","o","f"," ","t","h","e"," ","o","v","a","r","i","e","s",".">>, score |-> 8] >> >>,
     <<<<"B","R","C","A","2">>,
       << [disease_name |-> <<"H","e","r","e","d","i","t","a","r","y"," ","b","r","e","a","s","t"," ","a","n","d"," ","o","v","a","r","i","a","n"," ","c","a","n","c","e","r"," ","s","y","n","d","r","o","m","e">>, description |-> <<"A","n"," ","a","u","t","o","s","o","m","a","l"," ","d","o","m","i","n","a","n","t"," ","s","y","n","d","r","o","m","e"," ","a","s","s","o","c","i","a","t","e","d"," ","w","i","t","h"," ","i","n","c","r","e","a","s","e","d"," ","r","i","s","k"," ","o","f"," ","b","r","e","a","s","t"," ","a","n","d"," ","o","v","a","r","i","a","n"," ","c","a","n","c","e","r",".">>, score |-> 9],
          [disease_name |-> <<"P","a","n","c","r","e","a","t","i","c"," ","c","a","n","c","e","r">>, description |-> <<"A"," ","m","a","l","i","g","n","a","n","t"," ","n","e","o","p","l","a","s","m"," ","o","f"," ","t","h","e"," ","p","a","n","c","r","e","a","s",".">>, score |-> 8],
          [disease_name |-> <<"F","a","n","c","o","n","i"," ","a","n","e","m","i","a">>, description |-> <<"A"," ","r","a","r","e"," ","g","e","n","e","t","i","c"," ","d","i","s","o","r","d","e","r"," ","a","f","f","e","c","t","i","n","g"," ","b","o","n","e"," ","m","a","r","r","o","w",".">>, score |-> 7] >> >>,
     <<<<"E","G","F","R">>,
       << [disease_name |-> <<"N","o","n","-","s","m","a","l","l"," ","c","e","l","l"," ","l","u","n","g"," ","c","a","n","c","e","r">>, description |-> <<"A"," ","t","y","p","e"," ","o","f"," ","l","u","n","g"," ","c","a","n","c","e","r"," ","t","h","a","t"," ","i","s"," ","t","h","e"," ","m","o","s","t"," ","c","o","m","m","o","n"," ","f","o","r","m"," ","o","f"," ","l","u","n","g"," ","c","a","n","c","e","r",".">>, score |-> 9],
          [disease_name |-> <<"G","l","i","o","b","l","a","s","t","o","m","a">>, description |-> <<"A"," ","h","i","g","h","l","y"," ","a","g","g","r","e","s","s","i","v","e"," ","b","r","a","i","n"," ","t","u","m","o","r",".">>, score |-> 8],
          [disease_name |-> <<"C","o","l","o","r","e","c","t","a","l"," ","c","a","n","c","e","r">>, description |-> <<"A"," ","c","o","m","m","o","n"," ","m","a","l","i","g","n","a","n","c","y"," ","a","s","s","o","c","i","a","t","e","d"," ","w","i","t","h"," ","g","e","n","e","t","i","c"," ","a","n","d"," ","e","n","v","i","r","o","n","m","e","n","t","a","l"," ","r","i","s","k"," ","f","a","c","t","o","r","s",".">>, score |-> 7] >> >>,
     <<<<"I","N","S">>,
       << [disease_name |-> <<"D","i","a","b","e","t","e","s"," ","m","e","l","l","i","t","u","s">>, description |-> <<"A"," ","m","e","t","a","b","o","l","i","c"," ","d","i","s","o","r","d","e","r"," ","c","h","a","r","a","c","t","e","r","i","z","e","d"," ","b","y"," ","h","y","p","e","r","g","l","y","c","e","m","i","a"," ","r","e","s","u","l","t","i","n","g"," ","f","r","o","m"," ","d","e","f","e","c","t","s"," ","i","n"," ","i","n","s","u","l","i","n"," ","s","e","c","r","e","t","i","o","n",","," ","i","n","s","u","l","i","n"," ","a","c","t","i","o","n",","," ","o","r"," ","b","o","t","h",".">>, score |-> 9],
          [disease_name |-> <<"H","y","p","e","r","i","n","s","u","l","i","n","e","m","i","c"," ","h","y","p","o","g","l","y","c","e","m","i","a">>, description |-> <<"A"," ","c","o","n","d","i","t","i","o","n"," ","c","h","a","r","a","c","t","e","r","i","z","e","d"," ","b","y"," ","a","b","n","o","r","m","a","l","l","y"," ","h","i","g","h"," ","l","e","v","e","l","s"," ","o","f"," ","i","n","s","u","l","i","n"," ","i","n"," ","t","h","e"," ","b","l","o","o","d",","," ","c","a","u","s","i","n","g"," ","h","y","p","o","g","l","y","c","e","m","i","a",".">>, score |-> 8] >> >>,
     <<<<"A","P","P">>,
       << [disease_name |-> <<"A","l","z","h","e","i","m","e","r","'","s"," ","d","i","s","e","a","s","e">>, description |-> <<"A"," ","p","r","o","g","r","e","s","s","i","v","e"," ","n","e","u","r","o","d","e","g","e","n","e","r","a","t","i","v","e"," ","d","i","s","o","r","d","e","r"," ","c","h","a","r","a","c","t","e","r","i","z","e","d"," ","b","y"," ","m","e","m","o","r","y"," ","l","o","s","s"," ","a","n","d"," ","c","o","g","n","i","t","i","v","e"," ","d","e","c","l","i","n","e",".">>, score |-> 9],
          [disease_name |-> <<"C","e","r","e","b","r","a","l"," ","a","m","y","l","o","i","d"," ","a","n","g","i","o","p","a","t","h","y">>, description |-> <<"A"," ","c","o","n","d","i","t","i","o","n"," ","i","n"," ","w","h","i","c","h"," ","a","m","y","l","o","i","d"," ","d","e","p","o","s","i","t","s"," ","f","o","r","m"," ","i","n"," ","t","h","e"," ","w","a","l","l","s"," ","o","f"," ","b","l","o","o","d"," ","v","e","s","s","e","l","s"," ","o","f"," ","t","h","e"," ","b","r","a","i","n",".">>, score |-> 8] >> >>,
     <<<<"A","P","O","E">>,
       << [disease_name |-> <<"A","l","z","h","e","i","m","e","r","'","s"," ","d","i","s","e","a","s","e">>, description |-> <<"A"," ","p","r","o","g","r","e","s","s","i","v","e"," ","n","e","u","r","o","d","e","g","e","n","e","r","a","t","i","v","e"," ","d","i","s","o","r","d","e","r"," ","c","h","a","r","a","c","t","e","r","i","z","e","d"," ","b","y"," ","m","e","m","o","r","y"," ","l","o","s","s"," ","a","n","d"," ","c","o","g","n","i","t","i","v","e"," ","d","e","c","l","i","n","e",".">>, score |-> 9],
          [disease_name |-> <<"H","y","p","e","r","l","i","p","i","d","e","m","i","a">>, description |-> <<"A","b","n","o","r","m","a","l","l","y"," ","e","l","e","v","a","t","e","d"," ","l","e","v","e","l","s"," ","o","f"," ","l","i","p","i","d","s"," ","i","n"," ","t","h","e"," ","b","l","o","o","d",".">>, score |-> 8],
          [disease_name |-> <<"C","a","r","d","i","o","v","a","s","c","u","l","a","r"," ","d","i","s","e","a","s","e">>, description |-> <<"D","i","s","e","a","s","e","s"," ","a","f","f","e","c","t","i","n","g"," ","t","h","e"," ","h","e","a","r","t"," ","a","n","d"," ","b","l","o","o","d"," ","v","e","s","s","e","l","s",".">>, score |-> 7] >> >> >>

COMMON_DRUGS ==
  << <<<<"T","P","5","3">>,
       << [name |-> <<"A","P","R","-","2","4","6">>, type |-> <<"s","m","a","l","l"," ","m","o","l","e","c","u","l","e">>, mechanism |-> <<"p","5","3"," ","r","e","a","c","t","i","v","a","t","o","r">>, groups |-> << <<"i","n","v","e","s","t","i","g","a","t","i","o","n","a","l">> >>],
          [name |-> <<"C","O","T","I","-","2">>, type |-> <<"s","m","a","l","l"," ","m","o","l","e","c","u","l","e">>, mechanism |-> <<"p","5","3"," ","r","e","a","c","t","i","v","a","t","o","r">>, groups |-> << <<"e","x","p","e","r","i","m","e","n","t","a","l">> >>] >> >>,
     <<<<"B","R","C","A","1">>,
       << [name |-> <<"O","l","a","p","a","r","i","b">>, type |-> <<"s","m","a","l","l"," ","m","o","l","e","c","u","l","e">>, mechanism |-> <<"P","A","R","P"," ","i","n","h","i","b","i","t","o","r">>, groups |-> << <<"a","p","p","r","o","v","e","d">> >>],
          [name |-> <<"T","a","l","a","z","o","p","a","r","i","b">>, type |-> <<"s","m","a","l","l"," ","m","o","l","e","c","u","l","e">>, mechanism |-> <<"P","A","R","P"," ","i","n","h","i","b","i","t","o","r">>, groups |-> << <<"a","p","p","r","o","v","e","d">> >>] >> >>,
     <<<<"B","R","C","A","2">>,
       << [name |-> <<"O","l","a","p","a","r","i","b">>, type |-> <<"s","m","a","l","l"," ","m","o","l","e","c","u","l","e">>, mechanism |-> <<"P","A","R","P"," ","i","n","h","i","b","i","t","o","r">>, groups |-> << <<"a","p","p","r","o","v","e","d">> >>],
          [name |-> <<"R","u","c","a","p","a","r","i","b">>, type |-> <<"s","m","a","l","l"," ","m","o","l","e","c","u","l","e">>, mechanism |-> <<"P","A","R","P"," ","i","n","h","i","b","i","t","o","r">>, groups |-> << <<"a","p","p","r","o","v","e","d">> >>] >> >>,
     <<<<"E","G","F","R">>,
       << [name |-> <<"G","e","f","i","t","i","n","i","b">>, type |-> <<"s","m","a","l","l"," ","m","o","l","e","c","u","l","e">>, mechanism |-> <<"E","G","F","R"," ","i","n","h","i","b","i","t","o","r">>, groups |-> << <<"a","p","p","r","o","v","e","d">> >>],
          [name |-> <<"E","r","l","o","t","i","n","i","b">>, type |-> <<"s","m","a","l","l"," ","m","o","l","e","c","u","l","e">>, mechanism |-> <<"E","G","F","R"," ","i","n","h","i","b","i","t","o","r">>, groups |-> << <<"a","p","p","r","o","v","e","d">> >>],
          [name |-> <<"C","e","t","u","x","i","m","a","b">>, type |-> <<"a","n","t","i","b","o","d","y">>, mechanism |-> <<"E","G","F","R"," ","i","n","h","i","b","i","t","o","r">>, groups |-> << <<"a","p","p","r","o","v","e","d">> >>] >> >>,
     <<<<"I","N","S">>,
       << [name |-> <<"I","n","s","u","l","i","n"," ","g","l","a","r","g","i","n","e">>, type |-> <<"p","r","o","t","e","i","n">>, mechanism |-> <<"I","n","s","u","l","i","n"," ","r","e","c","e","p","t","o","r"," ","a","g","o","n","i","s","t">>, groups |-> << <<"a","p","p","r","o","v","e","d">> >>],
          [name |-> <<"I","n","s","u","l","i","n"," ","l","i","s","p","r","o">>, type |-> <<"p","r","o","t","e","i","n">>, mechanism |-> <<"I","n","s","u","l","i","n"," ","r","e","c","e","p","t","o","r"," ","a","g","o","n","i","s","t">>, groups |-> << <<"a","p","p","r","o","v","e","d">> >>] >> >>,
     <<<<"A","P","P">>,
       << [name |-> <<"A","d","u","c","a","n","u","m","a","b">>, type |-> <<"a","n","t","i","b","o","d","y">>, mechanism |-> <<"A","m","y","l","o","i","d"," ","b","e","t","a","-","d","i","r","e","c","t","e","d"," ","a","n","t","i","b","o","d","y">>, groups |-> << <<"a","p","p","r","o","v","e","d">> >>],
          [name |-> <<"L","e","c","a","n","e","m","a","b">>, type |-> <<"a","n","t","i","b","o","d","y">>, mechanism |-> <<"A","m","y","l","o","i","d"," ","b","e","t","a","-","d","i","r","e","c","t","e","d"," ","a","n","t","i","b","o","d","y">>, groups |-> << <<"a","p","p","r","o","v","e","d">> >>] >> >>,
     <<<<"A","P","O","E">>,
       << [name |-> <<"S","t","a","t","i","n","s">>, type |-> <<"s","m","a","l","l"," ","m","o","l","e","c","u","l","e">>, mechanism |-> <<"H","M","G","-","C","o","A"," ","r","e","d","u","c","t","a","s","e"," ","i","n","h","i","b","i","t","o","r">>, groups |-> << <<"a","p","p","r","o","v","e","d">> >>],
          [name |-> <<"L","o","m","i","t","a","p","i","d","e">>, type |-> <<"s","m","a","l","l"," ","m","o","l","e","c","u","l","e">>, mechanism |-> <<"M","i","c","r","o","s","o","m","a","l"," ","t","r","i","g","l","y","c","e","r","i","d","e"," ","t","r","a","n","s","f","e","r"," ","p","r","o","t","e","i","n"," ","i","n","h","i","b","i","t","o","r">>, groups |-> << <<"a","p","p","r","o","v","e","d">> >>] >> >> >>

\* only the first test of the loop: the known key inside the symbol
SimilarGene_OneWay(known_gene, gene_symbol) ==
  Contains(Lower(gene_symbol), Lower(known_gene))

SimilarGene(known_gene, gene_symbol) ==
  \/ Contains(Lower(gene_symbol), Lower(known_gene))
  \/ Contains(Lower(known_gene), Lower(gene_symbol))

\* the entry of the first key of the table, in table order, that is similar
\* to gene_symbol; <<>> when no key is
RECURSIVE FirstSimilar(_, _, _)
FirstSimilar(table, gene_symbol, i) ==
  IF i > Len(table) THEN <<>>
  ELSE IF SimilarGene(table[i][1], gene_symbol) THEN table[i][2]
  ELSE FirstSimilar(table, gene_symbol, i + 1)

\* answers of the DisGeNET request: 200 with a JSON body, another status, or
\* a transport exception
DisgenetAnswers ==
  { [status |-> "exception", json |-> [none |-> TRUE]],
    [status |-> "404", json |-> [none |-> TRUE]],
    [status |-> "200", json |-> [results |-> << [disease_name |-> <<"O","s","t","e","o","s","a","r","c","o","m","a">>,
                                                  disease_type |-> <<"d","i","s","e","a","s","e">>,
                                                  score |-> 6] >>]],
    [status |-> "200", json |-> [results |-> << [diseaseid |-> <<"C","0","0","2","9","4","6","3">>] >>]],
    [status |-> "200", json |-> [results |-> << [disease_name |-> <<"O","s","t","e","o","s","a","r","c","o","m","a">>,
                                                  disease_type |-> <<"d","i","s","e","a","s","e">>,
                                                  score |-> 6],
                                                 [disease_name |-> <<"G","l","i","o","m","a">>,
                                                  disease_type |-> <<"d","i","s","e","a","s","e">>,
                                                  score |-> 5],
                                                 [disease_name |-> <<"M","e","l","a","n","o","m","a">>,
                                                  disease_type |-> <<"d","i","s","e","a","s","e">>,
                                                  score |-> 4],
                                                 [disease_name |-> <<"L","y","m","p","h","o","m","a">>,
                                                  disease_type |-> <<"d","i","s","e","a","s","e">>,
                                                  score |-> 3] >>]],
    [status |-> "200", json |-> [pylist |-> <<>>]] }

\* the table consulted with the symbol as given, not upper-cased
get_disease_associations_CaseSensitive(gene_symbol, answer) ==
  IF TableHas(COMMON_DISEASES, gene_symbol)
  THEN [ret |-> [gene_symbol |-> gene_symbol,
                 diseases |-> TableGet(COMMON_DISEASES, gene_symbol)],
        requests |-> 0]
  ELSE IF answer.status = "200"
  THEN [ret |-> answer.json, requests |-> 1]
  ELSE [ret |-> [gene_symbol |-> gene_symbol,
                 diseases |-> FirstSimilar(COMMON_DISEASES, gene_symbol, 1)],
        requests |-> 1]

\* ret: the returned dict; requests: number of HTTP requests issued
get_disease_associations(gene_symbol, answer) ==
  IF TableHas(COMMON_DISEASES, Upper(gene_symbol))
  THEN [ret |-> [gene_symbol |-> gene_symbol,
                 diseases |-> TableGet(COMMON_DISEASES, Upper(gene_symbol))],
        requests |-> 0]
  ELSE IF answer.status = "200"
  THEN [ret |-> answer.json, requests |-> 1]
  ELSE [ret |-> [gene_symbol |-> gene_symbol,
                 diseases |-> FirstSimilar(COMMON_DISEASES, gene_symbol, 1)],
        requests |-> 1]

get_drug_associations(gene_symbol) ==
  IF TableHas(COMMON_DRUGS, Upper(gene_symbol))
  THEN [ret |-> [gene_symbol |-> gene_symbol,
                 drugs |-> TableGet(COMMON_DRUGS, Upper(gene_symbol))],
        requests |-> 0]
  ELSE [ret |-> [gene_symbol |-> gene_symbol,
                 drugs |-> FirstSimilar(COMMON_DRUGS, gene_symbol, 1)],
        requests |-> 0]

\* one element of the list built from disease_data["results"]
FormatDisgenetResult(result) ==
  [disease_name |-> Get(result, "disease_name", <<"U","n","k","n","o","w","n">>),
   description |-> Get(result, "disease_type", <<"N","o"," ","d","e","s","c","r","i","p","t","i","o","n"," ","a","v","a","i","l","a","b","l","e">>),
   score |-> Get(result, "score", 5)]

get_disease_drug_summary(gene_symbol, answer) ==
  LET disease_data == get_disease_associations(gene_symbol, answer)
      drug_data == get_drug_associations(gene_symbol)
      diseases == IF IsDict(disease_data.ret) /\ Has(disease_data.ret, "diseases")
                  THEN disease_data.ret.diseases
                  ELSE IF IsDict(disease_data.ret) /\ Has(disease_data.ret, "results")
                  THEN [i \in 1..Len(disease_data.ret.results) |->
                          FormatDisgenetResult(disease_data.ret.results[i])]
                  ELSE <<>>
      drugs == IF Has(drug_data.ret, "drugs") THEN drug_data.ret.drugs ELSE <<>>
  IN [ret |-> [diseases |-> diseases, drugs |-> drugs],
      requests |-> disease_data.requests + drug_data.requests]

----------------------------------------------------------------------------
(* data/uniprot_api.py *)

\* the dict extract_protein_info builds from a UniProt entry
UniProtInfo(accession, function, organism, sequence) ==
  [accession |-> accession,
   name |-> <<"C","e","l","l","u","l","a","r"," ","t","u","m","o","r"," ","a","n","t","i","g","e","n"," ","p","5","3">>,
   gene_names |-> << <<"T","P","5","3">>, <<"P","5","3">> >>,
   organism |-> organism,
   sequence |-> sequence,
   length |-> Len(sequence),
   function |-> function,
   subcellular_location |-> << <<"N","u","c","l","e","u","s">> >>,
   go_terms |-> <<>>,
   diseases |-> <<>>]

UniProtError(query) == [error |-> <<"N","o"," ","p","r","o","t","e","i","n"," ","f","o","u","n","d"," ","f","o","r"," ","q","u","e","r","y",":"," ">> \o query]

----------------------------------------------------------------------------
(* data/protein_data_service.py: what the adapters answer to the service *)

Q_TP53 == <<"T","P","5","3">>
Q_tp53 == <<"t","p","5","3">>
Queries == {Q_TP53, Q_tp53}

\* the first query meets every answer below, the second query two of them
Rich(query) == query = Q_TP53

S_FUNC_U == <<"A","c","t","s"," ","a","s"," ","a"," ","t","u","m","o","r"," ","s","u","p","p","r","e","s","s","o","r",".">>
S_HUMAN == <<"H","o","m","o"," ","s","a","p","i","e","n","s">>
S_SEQ == <<"M","E","E","P","Q","S","D","P","S","V">>
S_GENE_SUMMARY == <<"T","h","i","s"," ","g","e","n","e"," ","e","n","c","o","d","e","s"," ","a"," ","t","u","m","o","r"," ","s","u","p","p","r","e","s","s","o","r"," ","p","r","o","t","e","i","n",".">>

U_Full == UniProtInfo(<<"P","0","4","6","3","7">>, S_FUNC_U, S_HUMAN, S_SEQ)
U_NoFunction == UniProtInfo(<<"P","0","4","6","3","7">>, <<>>, S_HUMAN, S_SEQ)
U_Gaps == UniProtInfo(<<"P","0","4","6","3","7">>, S_FUNC_U, <<>>, <<>>)

N_TP53 == format_protein_data(
            GeneRecord(<<"7","1","5","7">>, <<"T","P","5","3">>, <<"t","u","m","o","r"," ","p","r","o","t","e","i","n"," ","p","5","3">>, S_GENE_SUMMARY, S_HUMAN, <<>>))
N_TP53_Bare == format_protein_data(
                 GeneRecord(<<"7","1","5","7">>, <<"T","P","5","3">>, <<"t","u","m","o","r"," ","p","r","o","t","e","i","n"," ","p","5","3">>, <<>>, <<>>, <<>>))
N_XYZ1 == format_protein_data(
            GeneRecord(<<"9","9","9","9">>, <<"X","Y","Z","1">>, <<"x","y","z"," ","p","r","o","t","e","i","n"," ","1">>, <<>>, S_HUMAN, <<>>))
N_NoSymbol == format_protein_data(GeneRecord(<<"9","9","9","9">>, <<>>, <<>>, <<>>, <<>>, <<>>))
N_Protein == format_protein_data(
               ProteinRecord(<<"4","5","5","7","7","5","7">>, <<"N","P","_","0","0","0","5","3","7",".","3">>, <<"c","e","l","l","u","l","a","r"," ","t","u","m","o","r"," ","a","n","t","i","g","e","n"," ","p","5","3">>,
                             <<>>, S_HUMAN, <<>>, S_SEQ))

NcbiError(query) == [error |-> <<"N","o"," ","p","r","o","t","e","i","n"," ","f","o","u","n","d"," ","f","o","r"," ","'">> \o query \o <<"'"," ","i","n"," ","N","C","B","I"," ","d","a","t","a","b","a","s","e","s">>]

UniProtOutcomes(query) ==
  { Ret(UniProtError(query)), Ret(U_Full) }
  \cup (IF Rich(query) THEN { Raise, Ret(U_NoFunction), Ret(U_Gaps) } ELSE {})

\* u: what the UniProt adapter returned to the same call
NcbiOutcomes(query, u) ==
  IF Rich(query)
  THEN { Ret(NcbiError(query)), Ret(N_TP53), Ret(N_TP53_Bare), Ret(N_XYZ1),
         Ret(N_NoSymbol), Ret(N_Protein) }
       \cup (IF u = Ret(U_Full) THEN { Raise } ELSE {})
  ELSE IF Has(u.v, "error") THEN { Ret(NcbiError(query)) } ELSE { Ret(N_TP53) }

MappingOutcomes(query, gene_symbol) ==
  { Ret(get_uniprot_mapping(gene_symbol, net)) : net \in MappingNets } \cup { Raise }

PDB_1TUP == <<"1","T","U","P">>
PDB_2OCJ == <<"2","O","C","J">>
PdbIds == {PDB_1TUP, PDB_2OCJ}

SearchHits(ids) == [result_set |-> [i \in 1..Len(ids) |-> [identifier |-> ids[i]]]]
SearchError == [error |-> <<"F","a","i","l","e","d"," ","t","o"," ","r","e","t","r","i","e","v","e"," ","P","D","B"," ","d","a","t","a",":"," ","5","0","0">>]
AlphaFoldOk == [pylist |-> << [entryId |-> <<"A","F","-","F","1">>] >>]
AlphaFoldError == [error |-> <<"F","a","i","l","e","d"," ","t","o"," ","r","e","t","r","i","e","v","e"," ","A","l","p","h","a","F","o","l","d"," ","d","a","t","a",":"," ","4","0","4">>]
AllDetailsOk == [id \in PdbIds |-> "ok"]

StructNetOk == [search1 |-> SearchHits(<<PDB_1TUP>>), search2 |-> SearchError,
                details |-> AllDetailsOk, alphafold |-> AlphaFoldOk]
StructNetDown == [search1 |-> SearchError, search2 |-> SearchError,
                  details |-> AllDetailsOk, alphafold |-> AlphaFoldError]

\* the section adapters' answers vary in full for three identity outcomes:
\* UniProt primary with an NCBI secondary, NCBI primary with a resolved
\* placeholder, NCBI primary with an unresolved placeholder
VarySections(query, u, n, m) ==
  /\ Rich(query)
  /\ \/ u = Ret(U_Full) /\ n = Ret(N_TP53)
     \/ u = Ret(UniProtError(query)) /\ n = Ret(N_TP53) /\ m.k = "ret"
     \/ u = Ret(UniProtError(query)) /\ n = Ret(N_XYZ1)
        /\ m = Ret(get_uniprot_mapping(<<"X","Y","Z","1">>, [search |-> "empty", fetch |-> "none", id |-> <<>>]))

StructureOutcomes(vary, uniprot_id, gene_symbol) ==
  { get_structure_summary(uniprot_id, gene_symbol, StructNetOk).ret }
  \cup (IF vary
        THEN { get_structure_summary(uniprot_id, gene_symbol, StructNetDown).ret, Raise }
        ELSE {})

\* the shape get_interaction_summary returns, which get_protein_chat_response reads
InteractionSummary ==
  [interactions |-> << [interactor_name |-> <<"M","D","M","2">>, score |-> 999] >>]

InteractionOutcomes(vary, gene_symbol) ==
  { get_interactions(gene_symbol, "ok") }
  \cup (IF vary
        THEN { get_interactions(gene_symbol, "status"),
               get_interactions(gene_symbol, "exception"),
               Ret(InteractionSummary) }
        ELSE {})

DiseaseDrugOutcomes(vary, gene_symbol) ==
  { Ret(get_disease_drug_summary(gene_symbol, answer).ret) :
      answer \in { a \in DisgenetAnswers : a.status = "404" \/ Has(a.json, "results") } }
  \cup (IF vary THEN { Raise, Ret([error |-> <<"D","i","s","e","a","s","e"," ","s","e","r","v","i","c","e"," ","u","n","a","v","a","i","l","a","b","l","e">>]) } ELSE {})

----------------------------------------------------------------------------
(* data/protein_data_service.py: ProteinDataService.get_protein_data *)

\* the key built from the trimmed, upper-cased query
CacheKey_Normalised(query) == <<"p","r","o","t","e","i","n","_","d","a","t","a","_">> \o Upper(Strip(query))

CacheKey(query) == <<"p","r","o","t","e","i","n","_","d","a","t","a","_">> \o query

\* the cache write of lines 153-155 left out
CacheStore_Skipped(c, cache_key, combined_data) == c

CacheStore(c, cache_key, combined_data) == Put(c, cache_key, combined_data)

ErrNotFound(query) ==
  [error |-> <<"N","o"," ","p","r","o","t","e","i","n"," ","d","a","t","a"," ","f","o","u","n","d"," ","f","o","r"," ","'">> \o query
             \o <<"'"," ","i","n"," ","e","i","t","h","e","r"," ","U","n","i","P","r","o","t"," ","o","r"," ","N","C","B","I"," ","d","a","t","a","b","a","s","e","s",".">>,
   query |-> query]

ErrFailed(query) ==
  [error |-> <<"F","a","i","l","e","d"," ","t","o"," ","r","e","t","r","i","e","v","e"," ","p","r","o","t","e","i","n"," ","d","a","t","a"," ","f","o","r"," ","'">> \o query \o <<"'",":"," ">> \o S_EXC,
   query |-> query]

\* the two identity sources tried in the opposite order
SelectPrimary_NcbiFirst(uniprot_info, ncbi_info) ==
  IF ~Has(ncbi_info, "error")
  THEN [found |-> TRUE, merge |-> FALSE,
        protein_info |-> Put(ncbi_info, "data_source", S_NCBI),
        secondary_info |-> ncbi_info]
  ELSE IF ~Has(uniprot_info, "error")
  THEN [found |-> TRUE, merge |-> TRUE,
        protein_info |-> Put(uniprot_info, "data_source", S_UniProt),
        secondary_info |-> ncbi_info]
  ELSE [found |-> FALSE, merge |-> FALSE,
        protein_info |-> uniprot_info, secondary_info |-> ncbi_info]

\* the final else branch missing: the NCBI result is used whatever it holds
SelectPrimary_NoTerminalError(uniprot_info, ncbi_info) ==
  IF ~Has(uniprot_info, "error")
  THEN [found |-> TRUE, merge |-> TRUE,
        protein_info |-> Put(uniprot_info, "data_source", S_UniProt),
        secondary_info |-> ncbi_info]
  ELSE [found |-> TRUE, merge |-> FALSE,
        protein_info |-> Put(ncbi_info, "data_source", S_NCBI),
        secondary_info |-> ncbi_info]

\* found: an identity source carries no error; merge: secondary_info is not None
SelectPrimary(uniprot_info, ncbi_info) ==
  IF ~Has(uniprot_info, "error")
  THEN [found |-> TRUE, merge |-> TRUE,
        protein_info |-> Put(uniprot_info, "data_source", S_UniProt),
        secondary_info |-> ncbi_info]
  ELSE IF ~Has(ncbi_info, "error")
  THEN [found |-> TRUE, merge |-> FALSE,
        protein_info |-> Put(ncbi_info, "data_source", S_NCBI),
        secondary_info |-> ncbi_info]
  ELSE [found |-> FALSE, merge |-> FALSE,
        protein_info |-> uniprot_info, secondary_info |-> ncbi_info]

\* the gene symbol taken from the query whatever the primary result holds
ExtractIds_QueryOnly(protein_info, query) ==
  [uniprot_id |-> Get(protein_info, "accession", Get(protein_info, "uniprot_id", <<>>)),
   gene_symbol |-> query]

ExtractIds(protein_info, query) ==
  [uniprot_id |-> Get(protein_info, "accession", Get(protein_info, "uniprot_id", <<>>)),
   gene_symbol |-> Get(protein_info, "gene_symbol", query)]

NeedsMapping(ids) == StartsWith(ids.uniprot_id, S_GENE_) /\ ids.gene_symbol /= <<>>

\* the mapped id used for the later calls but not written into the record
ResolvePlaceholder_RecordNotUpdated(protein_info, ids, m) ==
  IF NeedsMapping(ids) /\ m.k = "ret" /\ Has(m.v, "uniprot_id")
  THEN [uniprot_id |-> m.v.uniprot_id, protein_info |-> protein_info]
  ELSE [uniprot_id |-> ids.uniprot_id, protein_info |-> protein_info]

\* m: outcome of get_uniprot_mapping, consulted only when NeedsMapping
ResolvePlaceholder(protein_info, ids, m) ==
  IF NeedsMapping(ids) /\ m.k = "ret" /\ Has(m.v, "uniprot_id")
  THEN [uniprot_id |-> m.v.uniprot_id,
        protein_info |-> Put(Put(protein_info, "accession", m.v.uniprot_id),
                             "uniprot_id", m.v.uniprot_id)]
  ELSE [uniprot_id |-> ids.uniprot_id, protein_info |-> protein_info]

\* dict.update: the secondary value wins wherever the secondary has the key
FillGaps_SecondaryWins(protein_info, secondary_info) ==
  [key \in (DOMAIN protein_info) \cup (DOMAIN secondary_info) |->
     IF key \in DOMAIN secondary_info THEN secondary_info[key] ELSE protein_info[key]]

\* for key, value in secondary_info.items(): fill what protein_info lacks
FillGaps(protein_info, secondary_info) ==
  [key \in (DOMAIN protein_info) \cup (DOMAIN secondary_info) |->
     IF key \in DOMAIN secondary_info
        /\ (key \notin DOMAIN protein_info \/ ~Truthy(key, protein_info[key]))
     THEN secondary_info[key]
     ELSE protein_info[key]]

BackfillFunctionSummary(protein_info, secondary_info) ==
  LET p1 == IF Get(protein_info, "function", <<>>) = <<>>
               /\ Get(secondary_info, "function", <<>>) /= <<>>
            THEN Put(protein_info, "function", secondary_info.function) ELSE protein_info
      p2 == IF Get(p1, "summary", <<>>) = <<>> /\ Get(secondary_info, "summary", <<>>) /= <<>>
            THEN Put(p1, "summary", secondary_info.summary) ELSE p1
      p3 == IF Get(p2, "summary", <<>>) /= <<>> /\ Get(p2, "function", <<>>) = <<>>
            THEN Put(p2, "function", p2.summary) ELSE p2
      p4 == IF Get(p3, "function", <<>>) /= <<>> /\ Get(p3, "summary", <<>>) = <<>>
            THEN Put(p3, "summary", p3.function) ELSE p3
  IN p4

\* lines 88-109: runs only when there is a secondary result without error
MergeSecondary(protein_info, sel) ==
  IF sel.merge /\ PyTruthy(sel.secondary_info) /\ ~Has(sel.secondary_info, "error")
  THEN BackfillFunctionSummary(FillGaps(protein_info, sel.secondary_info), sel.secondary_info)
  ELSE protein_info

\* the placeholder test of line 113 left out
StructureCalled_AnyId(uniprot_id) == uniprot_id /= <<>>

StructureCalled(uniprot_id) == uniprot_id /= <<>> /\ ~StartsWith(uniprot_id, S_GENE_)

EmptyStructure == [structures |-> <<>>]
EmptyInteractions == [interactions |-> <<>>]
EmptyDiseaseDrug == [diseases |-> <<>>, drugs |-> <<>>]

\* the "error" not in ... test left out: only an exception gives the default
Section_KeepsErrorMarker(default, outcome) ==
  IF outcome.k = "ret" THEN outcome.v ELSE default

\* a guarded section call: the adapter's value, or the default when it was
\* not called, raised, or returned a dict with an "error" key
Section(default, outcome) ==
  IF outcome.k = "ret" /\ ~(IsDict(outcome.v) /\ Has(outcome.v, "error"))
  THEN outcome.v
  ELSE default

Call(api, args) == [api |-> api, args |-> args]

CombinedData(query, protein_info, structure_info, interaction_info, disease_drug_info) ==
  [query |-> query,
   basic_info |-> protein_info,
   structure |-> structure_info,
   interactions |-> interaction_info,
   disease_drug |-> disease_drug_info,
   data_source |-> Get(protein_info, "data_source", S_Combined),
   ai_generated |-> FALSE]

\* c: the cache; env: the outcome of each adapter call the service makes.
\* ret: the returned dict; cache: the cache afterwards; calls: the adapter
\* calls made, in order
\* the error result written to the cache like a record
ErrorReturn_Cached(c, query, error, calls) ==
  [ret |-> error, cache |-> CacheStore(c, CacheKey(query), error), calls |-> calls]

\* the returns of lines 61-64 and 159-162: neither passes the cache write of
\* line 154
ErrorReturn(c, query, error, calls) ==
  [ret |-> error, cache |-> c, calls |-> calls]

\* no exception is raised by a value that is not a dict
IdentityTypeError_Never(uniprot_info, ncbi_info) == FALSE

\* lines 47-56: `"error" not in value` raises TypeError on None, and
\* `protein_info["data_source"] = ...` raises TypeError on a list
IdentityTypeError(uniprot_info, ncbi_info) ==
  \/ ~IsMapping(uniprot_info)
  \/ Has(uniprot_info, "error") /\ ~IsMapping(ncbi_info)

\* line 91: a secondary result that passed the test of line 89 and is a list
\* has no items()
MergeTypeError(sel) ==
  /\ sel.merge
  /\ PyTruthy(sel.secondary_info)
  /\ ~IsDict(sel.secondary_info)

get_protein_data(c, query, env) ==
  LET cache_key == CacheKey(query)
      calls_u == << Call("uniprot", <<query>>) >>
      calls_n == Append(calls_u, Call("ncbi", <<query>>))
  IN
  IF cache_key \in DOMAIN c
  THEN [ret |-> c[cache_key], cache |-> c, calls |-> <<>>]
  ELSE IF env.u.k = "raise"
  THEN ErrorReturn(c, query, ErrFailed(query), calls_u)
  ELSE IF env.n.k = "raise"
  THEN ErrorReturn(c, query, ErrFailed(query), calls_n)
  ELSE IF IdentityTypeError(env.u.v, env.n.v)
  THEN ErrorReturn(c, query, ErrFailed(query), calls_n)
  ELSE
  LET sel == SelectPrimary(env.u.v, env.n.v) IN
  IF ~sel.found
  THEN ErrorReturn(c, query, ErrNotFound(query), calls_n)
  ELSE
  LET ids == ExtractIds(sel.protein_info, query)
      gene_symbol == ids.gene_symbol
      calls_m == IF NeedsMapping(ids)
                 THEN Append(calls_n, Call("mapping", <<gene_symbol>>)) ELSE calls_n
  IN
  IF MergeTypeError(sel)
  THEN ErrorReturn(c, query, ErrFailed(query), calls_m)
  ELSE
  LET res == ResolvePlaceholder(sel.protein_info, ids, env.m)
      uniprot_id == res.uniprot_id
      protein_info == MergeSecondary(res.protein_info, sel)
      calls_s == IF StructureCalled(uniprot_id)
                 THEN Append(calls_m, Call("structure", <<uniprot_id, gene_symbol>>))
                 ELSE calls_m
      calls_i == Append(calls_s, Call("interaction", <<gene_symbol, uniprot_id>>))
      calls_d == Append(calls_i, Call("disease_drug", <<gene_symbol, uniprot_id>>))
      structure_info == IF StructureCalled(uniprot_id)
                        THEN Section(EmptyStructure, env.s) ELSE EmptyStructure
      interaction_info == Section(EmptyInteractions, env.i)
      disease_drug_info == Section(EmptyDiseaseDrug, env.d)
      combined_data == CombinedData(query, protein_info, structure_info,
                                    interaction_info, disease_drug_info)
  IN [ret |-> combined_data,
      cache |-> CacheStore(c, cache_key, combined_data),
      calls |-> calls_d]

NoEnv == [u |-> NotCalled, n |-> NotCalled, m |-> NotCalled,
          s |-> NotCalled, i |-> NotCalled, d |-> NotCalled]

\* the adapter outcomes one get_protein_data(query) call can meet: an adapter
\* the call does not reach has outcome NotCalled
EnvsAfterMapping(query, u, n, m) ==
  LET sel == SelectPrimary(u.v, n.v)
      ids == ExtractIds(sel.protein_info, query)
      uniprot_id == ResolvePlaceholder(sel.protein_info, ids, m).uniprot_id
      vary == VarySections(query, u, n, m)
  IN { [u |-> u, n |-> n, m |-> m, s |-> s, i |-> i, d |-> d] :
         s \in IF StructureCalled(uniprot_id)
               THEN StructureOutcomes(vary, uniprot_id, ids.gene_symbol)
               ELSE {NotCalled},
         i \in InteractionOutcomes(vary, ids.gene_symbol),
         d \in DiseaseDrugOutcomes(vary, ids.gene_symbol) }

EnvsAfterIdentity(query, u, n) ==
  IF n.k = "raise" \/ ~SelectPrimary(u.v, n.v).found
  THEN { [NoEnv EXCEPT !.u = u, !.n = n] }
  ELSE LET ids == ExtractIds(SelectPrimary(u.v, n.v).protein_info, query)
       IN UNION { EnvsAfterMapping(query, u, n, m) :
                    m \in IF NeedsMapping(ids)
                          THEN MappingOutcomes(query, ids.gene_symbol)
                          ELSE {NotCalled} }

Envs(c, query) ==
  IF CacheKey(query) \in DOMAIN c THEN {NoEnv}
  ELSE UNION { IF u.k = "raise" THEN { [NoEnv EXCEPT !.u = u] }
               ELSE UNION { EnvsAfterIdentity(query, u, n) : n \in NcbiOutcomes(query, u) } :
               u \in UniProtOutcomes(query) }

IsRecord(ret) == ~Has(ret, "error")

----------------------------------------------------------------------------
(* data/protein_data_service.py: ProteinDataService.get_protein_chat_response *)

RECURSIVE IntToStr(_)
IntToStr(n) == IF n < 10 THEN <<DIGITS[n + 1]>> ELSE IntToStr(n \div 10) \o <<DIGITS[(n % 10) + 1]>>

RECURSIVE Join(_, _)
Join(sep, items) ==
  IF items = <<>> THEN <<>>
  ELSE IF Len(items) = 1 THEN items[1]
  ELSE items[1] \o sep \o Join(sep, Tail(items))

\* the whole list, not cut at three
Top3_Unbounded(items) == items

Top3(items) == SubSeq(items, 1, IF Len(items) < 3 THEN Len(items) ELSE 3)

AnyIn(keywords, text) == \E kw \in keywords : Contains(text, kw)

\* the disease keywords tested before the function keywords
Route_DiseaseFirst(user_query) ==
  LET user_query_lower == Lower(user_query) IN
  IF AnyIn({ <<"d","i","s","e","a","s","e">>, <<"c","o","n","d","i","t","i","o","n">>, <<"d","i","s","o","r","d","e","r">> }, user_query_lower) THEN "disease"
  ELSE IF AnyIn({ <<"f","u","n","c","t","i","o","n">>, <<"d","o">>, <<"r","o","l","e">> }, user_query_lower) THEN "function"
  ELSE IF AnyIn({ <<"d","r","u","g">>, <<"m","e","d","i","c","a","t","i","o","n">>, <<"t","r","e","a","t","m","e","n","t">> }, user_query_lower) THEN "drug"
  ELSE IF AnyIn({ <<"s","t","r","u","c","t","u","r","e">>, <<"3","d">> }, user_query_lower) THEN "structure"
  ELSE IF AnyIn({ <<"i","n","t","e","r","a","c","t","i","o","n">>, <<"p","a","r","t","n","e","r">>, <<"b","i","n","d">> }, user_query_lower) THEN "interaction"
  ELSE "general"

\* the branch of the if/elif chain that user_query takes
Route(user_query) ==
  LET user_query_lower == Lower(user_query) IN
  IF AnyIn({ <<"f","u","n","c","t","i","o","n">>, <<"d","o">>, <<"r","o","l","e">> }, user_query_lower) THEN "function"
  ELSE IF AnyIn({ <<"d","i","s","e","a","s","e">>, <<"c","o","n","d","i","t","i","o","n">>, <<"d","i","s","o","r","d","e","r">> }, user_query_lower) THEN "disease"
  ELSE IF AnyIn({ <<"d","r","u","g">>, <<"m","e","d","i","c","a","t","i","o","n">>, <<"t","r","e","a","t","m","e","n","t">> }, user_query_lower) THEN "drug"
  ELSE IF AnyIn({ <<"s","t","r","u","c","t","u","r","e">>, <<"3","d">> }, user_query_lower) THEN "structure"
  ELSE IF AnyIn({ <<"i","n","t","e","r","a","c","t","i","o","n">>, <<"p","a","r","t","n","e","r">>, <<"b","i","n","d">> }, user_query_lower) THEN "interaction"
  ELSE "general"

\* the distinct sources of the structures, in first-occurrence order
RECURSIVE Distinct(_)
Distinct(items) ==
  IF items = <<>> THEN <<>>
  ELSE LET rest == Distinct(SubSeq(items, 1, Len(items) - 1))
       IN IF InSeq(items[Len(items)], rest) THEN rest ELSE Append(rest, items[Len(items)])

Reverse(items) == [i \in 1..Len(items) |-> items[Len(items) + 1 - i]]

\* the orders in which iterating set([...]) can yield the sources (at most two)
SetOrders(items) == { Distinct(items), Reverse(Distinct(items)) }

RECURSIVE Bullets(_)
Bullets(lines) ==
  IF lines = <<>> THEN <<>>
  ELSE <<"\n","-"," ">> \o Head(lines) \o Bullets(Tail(lines))

S_ATTRIBUTION == <<"\n","\n","T","h","i","s"," ","i","n","f","o","r","m","a","t","i","o","n"," ","w","a","s"," ","r","e","t","r","i","e","v","e","d"," ","f","r","o","m"," ">>

ChatFailure(query) ==
  [response |-> <<"I"," ","e","n","c","o","u","n","t","e","r","e","d"," ","a","n"," ","e","r","r","o","r"," ","w","h","i","l","e"," ","t","r","y","i","n","g"," ","t","o"," ","a","n","s","w","e","r"," ","y","o","u","r"," ","q","u","e","s","t","i","o","n"," ","a","b","o","u","t"," ">> \o query
                \o <<"."," ","P","l","e","a","s","e"," ","t","r","y"," ","a","g","a","i","n"," ","o","r"," ","a","s","k"," ","a","b","o","u","t"," ","a"," ","d","i","f","f","e","r","e","n","t"," ","p","r","o","t","e","i","n",".">>,
   error |-> S_EXC]

\* protein_data: a record returned by get_protein_data; sources: the order
\* in which the set of structure sources is iterated
ChatAnswer(query, protein_data, user_query, sources) ==
  LET protein_info == protein_data.basic_info
      protein_name == Get(protein_info, "protein_name", <<>>)
      gene_symbol == Get(protein_info, "gene_symbol", <<>>)
      function == Get(protein_info, "function", <<>>)
      summary == Get(protein_info, "summary", <<>>)
      who == protein_name \o <<" ","(">> \o gene_symbol \o <<")">>
      structures == Get(protein_data.structure, "structures", <<>>)
      structure_text ==
        IF structures /= <<>>
        THEN <<"T","h","i","s"," ","p","r","o","t","e","i","n"," ","h","a","s"," ">> \o IntToStr(Len(structures)) \o <<" ","k","n","o","w","n"," ","s","t","r","u","c","t","u","r","e","s"," ","f","r","o","m"," ">>
             \o Join(<<","," ">>, sources) \o <<".">>
        ELSE <<>>
      diseases == Get(protein_data.disease_drug, "diseases", <<>>)
      disease_text ==
        IF diseases /= <<>>
        THEN <<"T","h","i","s"," ","p","r","o","t","e","i","n"," ","i","s"," ","a","s","s","o","c","i","a","t","e","d"," ","w","i","t","h"," ","d","i","s","e","a","s","e","s"," ","s","u","c","h"," ","a","s"," ">>
             \o Join(<<","," ">>, [i \in 1..Len(Top3(diseases)) |-> diseases[i].disease_name]) \o <<".">>
        ELSE <<>>
      drugs == Get(protein_data.disease_drug, "drugs", <<>>)
      drug_text ==
        IF drugs /= <<>>
        THEN <<"D","r","u","g","s"," ","t","h","a","t"," ","t","a","r","g","e","t"," ","t","h","i","s"," ","p","r","o","t","e","i","n"," ","i","n","c","l","u","d","e"," ">>
             \o Join(<<","," ">>, [i \in 1..Len(Top3(drugs)) |-> drugs[i].name]) \o <<".">>
        ELSE <<>>
      DiseaseLine(d) == d.disease_name \o <<":"," ">> \o Get(d, "description", <<"N","o"," ","d","e","s","c","r","i","p","t","i","o","n"," ","a","v","a","i","l","a","b","l","e">>)
      DrugLine(d) == d.name \o <<":"," ">> \o Get(d, "mechanism", <<"M","e","c","h","a","n","i","s","m"," ","u","n","k","n","o","w","n">>)
      StructureLine(st) == st.id \o <<" ","f","r","o","m"," ">> \o st.source \o <<" ","(">>
                           \o Get(st, "method", <<"M","e","t","h","o","d"," ","u","n","k","n","o","w","n">>) \o <<")">>
      InteractionLine(it) == Get(it, "interactor_name", <<"U","n","k","n","o","w","n"," ","p","r","o","t","e","i","n">>)
      route == Route(user_query)
      interactions == Get(protein_data.interactions, "interactions", <<>>)
      response_text ==
        IF route = "function"
        THEN <<"T","h","e"," ","f","u","n","c","t","i","o","n"," ","o","f"," ">> \o who \o <<" ","i","s",":"," ">> \o function
        ELSE IF route = "disease"
        THEN IF diseases /= <<>>
             THEN who \o <<" ","i","s"," ","a","s","s","o","c","i","a","t","e","d"," ","w","i","t","h"," ","s","e","v","e","r","a","l"," ","d","i","s","e","a","s","e","s",","," ","i","n","c","l","u","d","i","n","g",":"," ">>
                  \o Bullets([i \in 1..Len(Top3(diseases)) |-> DiseaseLine(diseases[i])])
             ELSE <<"I"," ","d","o","n","'","t"," ","h","a","v","e"," ","i","n","f","o","r","m","a","t","i","o","n"," ","a","b","o","u","t"," ","d","i","s","e","a","s","e","s"," ","a","s","s","o","c","i","a","t","e","d"," ","w","i","t","h"," ">> \o who \o <<".">>
        ELSE IF route = "drug"
        THEN IF drugs /= <<>>
             THEN <<"T","h","e","r","e"," ","a","r","e"," ","s","e","v","e","r","a","l"," ","d","r","u","g","s"," ","t","h","a","t"," ","t","a","r","g","e","t"," ">> \o who \o <<","," ","i","n","c","l","u","d","i","n","g",":"," ">>
                  \o Bullets([i \in 1..Len(Top3(drugs)) |-> DrugLine(drugs[i])])
             ELSE <<"I"," ","d","o","n","'","t"," ","h","a","v","e"," ","i","n","f","o","r","m","a","t","i","o","n"," ","a","b","o","u","t"," ","d","r","u","g","s"," ","t","h","a","t"," ","t","a","r","g","e","t"," ">> \o who \o <<".">>
        ELSE IF route = "structure"
        THEN IF structures /= <<>>
             THEN who \o <<" ","h","a","s"," ">> \o IntToStr(Len(structures)) \o <<" ","k","n","o","w","n"," ","s","t","r","u","c","t","u","r","e","s",":"," ">>
                  \o Bullets([i \in 1..Len(Top3(structures)) |-> StructureLine(structures[i])])
             ELSE <<"I"," ","d","o","n","'","t"," ","h","a","v","e"," ","i","n","f","o","r","m","a","t","i","o","n"," ","a","b","o","u","t"," ","t","h","e"," ","3","D"," ","s","t","r","u","c","t","u","r","e"," ","o","f"," ">> \o who \o <<".">>
        ELSE IF route = "interaction"
        THEN IF interactions /= <<>>
             THEN who \o <<" ","i","n","t","e","r","a","c","t","s"," ","w","i","t","h"," ","s","e","v","e","r","a","l"," ","p","r","o","t","e","i","n","s",","," ","i","n","c","l","u","d","i","n","g",":"," ">>
                  \o Bullets([i \in 1..Len(Top3(interactions)) |-> InteractionLine(interactions[i])])
             ELSE <<"I"," ","d","o","n","'","t"," ","h","a","v","e"," ","i","n","f","o","r","m","a","t","i","o","n"," ","a","b","o","u","t"," ","p","r","o","t","e","i","n","s"," ","t","h","a","t"," ","i","n","t","e","r","a","c","t"," ","w","i","t","h"," ">> \o who \o <<".">>
        ELSE <<"A","b","o","u","t"," ">> \o who \o <<":"," ">> \o summary \o <<"\n","\n">>
             \o (IF function /= <<>> THEN <<"F","u","n","c","t","i","o","n",":"," ">> \o function \o <<"\n","\n">> ELSE <<>>)
             \o (IF structure_text /= <<>> THEN structure_text \o <<"\n","\n">> ELSE <<>>)
             \o (IF disease_text /= <<>> THEN disease_text \o <<"\n","\n">> ELSE <<>>)
             \o drug_text
  IN \* a list has no .get: AttributeError, caught by the outer handler
     IF route = "interaction" /\ ~IsDict(protein_data.interactions)
     THEN ChatFailure(query)
     ELSE [response |-> response_text \o S_ATTRIBUTION
                        \o Get(protein_data, "data_source", <<"U","n","k","n","o","w","n">>) \o <<".">>]

get_protein_chat_response(query, protein_data, user_query, sources) ==
  IF Has(protein_data, "error")
  THEN [response |-> <<"I"," ","c","o","u","l","d","n","'","t"," ","f","i","n","d"," ","i","n","f","o","r","m","a","t","i","o","n"," ","a","b","o","u","t"," ","'">> \o query \o <<"'","."," ">>
                     \o protein_data.error,
        error |-> protein_data.error]
  ELSE ChatAnswer(query, protein_data, user_query, sources)

StructureSources(protein_data) ==
  IF Has(protein_data, "error") THEN <<>>
  ELSE LET structures == Get(protein_data.structure, "structures", <<>>)
       IN [i \in 1..Len(structures) |-> structures[i].source]

UserQueries(query) ==
  IF Rich(query)
  THEN { <<"W","h","a","t"," ","d","i","s","e","a","s","e"," ","i","s"," ","t","h","i","s"," ","l","i","n","k","e","d"," ","t","o","?">>,
         <<"W","h","a","t"," ","a","r","e"," ","i","t","s"," ","b","i","n","d","i","n","g"," ","p","a","r","t","n","e","r","s","?">>,
         <<"T","e","l","l"," ","m","e"," ","m","o","r","e">> }
  ELSE { <<"W","h","a","t"," ","d","o","e","s"," ","i","t"," ","d","o","?">> }

----------------------------------------------------------------------------
(* the service as a state machine: one ProteinDataService, calls one at a time *)

Idle == [op |-> "idle"]
EmptyMap == [x \in {} |-> <<>>]

LastInit == [op |-> "init", query |-> <<>>, repeat |-> FALSE, env |-> NoEnv,
             ret |-> [none |-> TRUE], calls |-> <<>>,
             user_query |-> <<>>, chat |-> [none |-> TRUE]]

\* a ProteinDataService right after __init__: an empty cache, nothing called
ServiceInit ==
  /\ cache = EmptyMap
  /\ first_ret = EmptyMap
  /\ last = LastInit

Init ==
  /\ ServiceInit
  /\ vz = Idle
  /\ rt = Idle
  /\ ps = Idle
  /\ ad = Idle
  /\ ch = Idle
  /\ nt = Idle
  /\ th = Idle
  /\ vs = Idle
  /\ ss = Idle
  /\ dd = Idle

GetProteinData(query) ==
  \E env \in Envs(cache, query) :
    LET r == get_protein_data(cache, query, env) IN
    /\ cache' = r.cache
    /\ first_ret' = IF IsRecord(r.ret) /\ query \notin DOMAIN first_ret
                    THEN Put(first_ret, query, r.ret) ELSE first_ret
    /\ last' = [op |-> "get_protein_data", query |-> query,
                repeat |-> query \in DOMAIN first_ret, env |-> env,
                ret |-> r.ret, calls |-> r.calls,
                user_query |-> <<>>, chat |-> [none |-> TRUE]]
    /\ UNCHANGED <<vs, ss, dd, ad, ch, nt, th, ps, vz, rt>>

\* get_protein_chat_response(query, chat_history, user_query): chat_history is
\* not read; ret is what the inner get_protein_data call returned
GetProteinChatResponse(query, user_query) ==
  \E env \in Envs(cache, query) :
    LET r == get_protein_data(cache, query, env) IN
    \E sources \in SetOrders(StructureSources(r.ret)) :
      /\ cache' = r.cache
      /\ first_ret' = IF IsRecord(r.ret) /\ query \notin DOMAIN first_ret
                      THEN Put(first_ret, query, r.ret) ELSE first_ret
      /\ last' = [op |-> "get_protein_chat_response", query |-> query,
                  repeat |-> query \in DOMAIN first_ret, env |-> env,
                  ret |-> r.ret, calls |-> r.calls,
                  user_query |-> user_query,
                  chat |-> get_protein_chat_response(query, r.ret, user_query, sources)]
      /\ UNCHANGED <<vs, ss, dd, ad, ch, nt, th, ps, vz, rt>>

Next ==
  \/ \E query \in Queries : GetProteinData(query)
  \/ \E query \in Queries : \E user_query \in UserQueries(query) :
       GetProteinChatResponse(query, user_query)

Spec == Init /\ [][Next]_vars

----------------------------------------------------------------------------
(* properties of get_protein_data, stated on the last call made *)

\* the last operation reconciled its query (no cache hit) and both identity
\* adapters returned
Reconciled == last.env.u.k = "ret" /\ last.env.n.k = "ret"
UInfo == last.env.u.v
NInfo == last.env.n.v
\* the identity result chosen as primary, as the adapter returned it
Primary == IF ~Has(UInfo, "error") THEN UInfo ELSE NInfo
PrimaryAccession == Get(Primary, "accession", Get(Primary, "uniprot_id", <<>>))
PrimaryGeneSymbol == Get(Primary, "gene_symbol", last.query)
CallsTo(api) == Cardinality({ i \in 1..Len(last.calls) : last.calls[i].api = api })
IsData(outcome) == outcome.k = "ret" /\ ~Has(outcome.v, "error")
\* the mapping lookup returned a dict with a uniprot_id key / with an id in it
MappingReturnedId == last.env.m.k = "ret" /\ Has(last.env.m.v, "uniprot_id")
MappingGaveId == MappingReturnedId /\ last.env.m.v.uniprot_id /= <<>>

\* C1: once get_protein_data(q) has returned a record, every later call for q
\* (from get_protein_data or from the chat handler, after any other calls)
\* returns that same record and invokes no adapter.
C1_RepeatReturnsCachedRecord ==
  last.repeat => /\ last.ret = first_ret[last.query]
                 /\ last.calls = <<>>
                 /\ cache[CacheKey(last.query)] = first_ret[last.query]

C1_Witness ==
  /\ last.op = "get_protein_data"
  /\ last.repeat
  /\ last.query = Q_TP53
  /\ Q_tp53 \in DOMAIN first_ret
  /\ first_ret[Q_tp53] /= first_ret[Q_TP53]
  /\ last.ret = first_ret[Q_TP53]

\* C2: a reconciling call returns a record tagged "UniProt" exactly when the
\* UniProt result has no error, a record tagged "NCBI" exactly when the UniProt
\* result is an error and the NCBI result is not, and an error result exactly
\* when both are errors; the record's data_source equals basic_info.data_source.
C2_PrimarySourceSelection ==
  /\ Reconciled =>
       /\ (IsRecord(last.ret) /\ last.ret.data_source = S_UniProt) <=> ~Has(UInfo, "error")
       /\ (IsRecord(last.ret) /\ last.ret.data_source = S_NCBI)
            <=> (Has(UInfo, "error") /\ ~Has(NInfo, "error"))
       /\ ~IsRecord(last.ret) <=> (Has(UInfo, "error") /\ Has(NInfo, "error"))
  /\ (last.op /= "init" /\ IsRecord(last.ret)) =>
       last.ret.data_source = last.ret.basic_info.data_source

C2_Witness ==
  /\ Reconciled
  /\ Has(UInfo, "error")
  /\ IsRecord(last.ret)
  /\ last.ret.data_source = S_NCBI
  /\ last.ret.basic_info.data_source = S_NCBI

\* C3: when both identity adapters return error markers the call returns an
\* error result holding only the error message and the query, and calls neither
\* the mapping lookup nor the structure, interaction or disease-drug adapter.
C3_BothIdentitySourcesFail ==
  (Reconciled /\ Has(UInfo, "error") /\ Has(NInfo, "error")) =>
    /\ DOMAIN last.ret = {"error", "query"}
    /\ last.ret.query = last.query
    /\ last.ret.error /= <<>>
    /\ \A i \in 1..Len(last.calls) : last.calls[i].api \in {"uniprot", "ncbi"}
    /\ last.env.m = NotCalled /\ last.env.s = NotCalled
    /\ last.env.i = NotCalled /\ last.env.d = NotCalled

C3_Witness ==
  /\ last.op = "get_protein_data"
  /\ Reconciled /\ Has(UInfo, "error") /\ Has(NInfo, "error")
  /\ Has(last.ret, "error")
  /\ Len(last.calls) = 2

\* C4 as stated: every truthy field of the primary identity result keeps the
\* primary's value in basic_info, whatever the secondary result contains.
C4_Original ==
  (Reconciled /\ IsRecord(last.ret)) =>
    \A F \in DOMAIN Primary :
      Truthy(F, Primary[F]) => last.ret.basic_info[F] = Primary[F]

OtherOf(F) == IF F = "function" THEN "summary" ELSE "function"
PlaceholderResolved == StartsWith(PrimaryAccession, S_GENE_) /\ MappingReturnedId
SecondaryMerged == Primary = UInfo /\ ~Has(NInfo, "error")

\* C4 amended: every truthy field of the primary identity result keeps the
\* primary's value in basic_info whatever the secondary contains, except that
\* accession and uniprot_id hold the id returned by get_uniprot_mapping when the
\* primary accession is a "GENE_" placeholder and the lookup succeeded; a
\* secondary value (or the function/summary backfill) lands only in fields
\* that are absent or falsy in the primary.
C4_FieldFillMerge ==
  (Reconciled /\ IsRecord(last.ret)) =>
    \A F \in DOMAIN last.ret.basic_info :
      LET v == last.ret.basic_info[F] IN
      IF F \in {"accession", "uniprot_id"} /\ PlaceholderResolved
      THEN v = last.env.m.v.uniprot_id
      ELSE IF F \in DOMAIN Primary /\ Truthy(F, Primary[F])
      THEN v = Primary[F]
      ELSE IF F = "data_source"
      THEN v = last.ret.data_source
      ELSE IF ~SecondaryMerged
      THEN F \in DOMAIN Primary /\ v = Primary[F]
      ELSE IF F \in DOMAIN NInfo /\ Truthy(F, NInfo[F])
      THEN v = NInfo[F]
      ELSE IF F \in {"function", "summary"} /\ v /= <<>>
      THEN v = last.ret.basic_info[OtherOf(F)]
      ELSE v = IF F \in DOMAIN NInfo THEN NInfo[F] ELSE Primary[F]

C4_Witness ==
  /\ Reconciled /\ IsRecord(last.ret)
  /\ Primary = UInfo
  /\ ~Has(NInfo, "error")
  /\ UInfo.function /= <<>> /\ NInfo.function /= <<>> /\ UInfo.function /= NInfo.function
  /\ last.ret.basic_info.function = UInfo.function
  /\ UInfo.organism = <<>> /\ last.ret.basic_info.organism = NInfo.organism
  /\ last.ret.basic_info.summary = NInfo.summary

\* C5 as stated: in every record, if either identity source supplied a
\* non-empty function or summary, basic_info.function and basic_info.summary
\* are both non-empty.
Supplies(info, key) == ~Has(info, "error") /\ Get(info, key, <<>>) /= <<>>
C5_BackfillBothNonEmpty ==
  (Reconciled /\ IsRecord(last.ret)) =>
    ((\E info \in {UInfo, NInfo} : Supplies(info, "function") \/ Supplies(info, "summary"))
       => /\ Get(last.ret.basic_info, "function", <<>>) /= <<>>
          /\ Get(last.ret.basic_info, "summary", <<>>) /= <<>>)

\* C6: once an identity source has succeeded the call returns a record for
\* every combination of section outcomes; a section whose adapter raised or
\* returned an error marker has its empty shape, a section whose adapter
\* returned data holds that data, and a failure stops no other section call.
C6_SectionDegradation ==
  (Reconciled /\ (~Has(UInfo, "error") \/ ~Has(NInfo, "error"))) =>
    /\ IsRecord(last.ret)
    /\ last.ret.structure = IF IsData(last.env.s) THEN last.env.s.v ELSE [structures |-> <<>>]
    /\ last.ret.interactions = IF IsData(last.env.i) THEN last.env.i.v
                                                      ELSE [interactions |-> <<>>]
    /\ last.ret.disease_drug = IF IsData(last.env.d) THEN last.env.d.v
                                                      ELSE [diseases |-> <<>>, drugs |-> <<>>]
    /\ CallsTo("interaction") = 1
    /\ CallsTo("disease_drug") = 1
    /\ CallsTo("structure") = IF last.env.s = NotCalled THEN 0 ELSE 1
    /\ last.env.s = NotCalled <=>
         (Get(last.ret.basic_info, "accession", Get(last.ret.basic_info, "uniprot_id", <<>>)) = <<>>
          \/ StartsWith(Get(last.ret.basic_info, "accession",
                            Get(last.ret.basic_info, "uniprot_id", <<>>)), S_GENE_))

C6_Witness ==
  /\ Reconciled /\ IsRecord(last.ret)
  /\ last.env.s = Raise
  /\ last.env.i.k = "ret" /\ Has(last.env.i.v, "error")
  /\ IsData(last.env.d)
  /\ last.ret.structure = [structures |-> <<>>]
  /\ last.ret.interactions = [interactions |-> <<>>]
  /\ last.ret.disease_drug = last.env.d.v
  /\ last.ret.disease_drug.diseases /= <<>>

\* C7: when the primary accession starts with "GENE_" and the gene symbol is
\* non-empty, get_uniprot_mapping is called exactly once (and otherwise not at
\* all); if it returns a uniprot_id, basic_info.accession and
\* basic_info.uniprot_id equal that id and, the id being a non-empty accession,
\* the structure adapter is queried with it; if it returns an error marker or
\* raises, the placeholder stays and the call still returns a record.
C7_PlaceholderResolution ==
  (Reconciled /\ (~Has(UInfo, "error") \/ ~Has(NInfo, "error"))) =>
    IF StartsWith(PrimaryAccession, S_GENE_) /\ PrimaryGeneSymbol /= <<>>
    THEN /\ CallsTo("mapping") = 1
         /\ IsRecord(last.ret)
         /\ MappingReturnedId =>
              /\ Get(last.ret.basic_info, "accession", <<>>) = last.env.m.v.uniprot_id
              /\ Get(last.ret.basic_info, "uniprot_id", <<>>) = last.env.m.v.uniprot_id
         /\ MappingGaveId =>
              /\ CallsTo("structure") = 1
              /\ \E i \in 1..Len(last.calls) :
                   /\ last.calls[i].api = "structure"
                   /\ last.calls[i].args[1] = last.env.m.v.uniprot_id
         /\ ~MappingReturnedId =>
              /\ last.ret.basic_info.uniprot_id = PrimaryAccession
              /\ "accession" \notin DOMAIN last.ret.basic_info
              /\ CallsTo("structure") = 0
    ELSE CallsTo("mapping") = 0 /\ last.env.m = NotCalled

C7_Witness ==
  /\ Reconciled /\ IsRecord(last.ret)
  /\ StartsWith(PrimaryAccession, S_GENE_)
  /\ PrimaryGeneSymbol = <<"X","Y","Z","1">>
  /\ MappingGaveId
  /\ last.ret.basic_info.accession = <<"Q","9","X","Y","Z","1">>
  /\ CallsTo("mapping") = 1
  /\ CallsTo("structure") = 1

----------------------------------------------------------------------------
(* ProteinStructureAPI.validate_structure_info applied to bounded entries *)

MaxIdLen == 7

Strings(alphabet, n) == UNION { [1..k -> alphabet] : k \in 0..n }

IdAlphabet == {"5", "P", "x", "-", "\n"}
SampleIds == { <<"5","X","Y","Z">>, <<"1","T","U","P">>, <<"P","0","4","6","3","7">>, <<"5","X","Y","Z","\n">>, <<"X","Y","Z">>, <<>> }
SampleSources == { <<>>, <<"p","d","b">>, <<"P","D","B">>, <<"a","l","p","h","a","f","o","l","d">>, <<"A","l","p","h","a","F","o","l","d">>, <<"r","c","s","b">> }

StructureInfos ==
  { [id |-> id] : id \in Strings(IdAlphabet, MaxIdLen) \cup SampleIds }
  \cup { [id |-> id, source |-> source] : id \in SampleIds, source \in SampleSources }
  \cup { [source |-> source] : source \in SampleSources }
  \cup { [title |-> <<"n","o"," ","i","d">>], [pylist |-> <<>>] }

InitValidate ==
  /\ ServiceInit
  /\ vz = Idle
  /\ rt = Idle
  /\ ps = Idle
  /\ ad = Idle
  /\ ch = Idle
  /\ nt = Idle
  /\ th = Idle
  /\ vs \in { [op |-> "input", structure_info |-> x] : x \in StructureInfos }
  /\ ss = Idle
  /\ dd = Idle

ValidateStructureInfo ==
  /\ vs.op = "input"
  /\ vs' = [op |-> "validate_structure_info",
            structure_info |-> vs.structure_info,
            out |-> validate_structure_info(vs.structure_info)]
  /\ UNCHANGED <<cache, first_ret, last, ss, dd, ad, ch, nt, th, ps, vz, rt>>

NextValidate == ValidateStructureInfo

SpecValidate == InitValidate /\ [][NextValidate]_vars

Validated == vs.op = "validate_structure_info"
NoSource == IsDict(vs.structure_info) /\ ~Has(vs.structure_info, "source")

\* 4 alphanumeric characters, the first a digit
PdbShaped(id) == Len(id) = 4 /\ IsDigit(id[1]) /\ \A i \in 2..4 : IsAlnum(id[i])
\* upper-case letter, digit, three upper-case letters or digits, digit
AccessionShaped(id) ==
  /\ Len(id) = 6
  /\ IsUpper(id[1])
  /\ IsDigit(id[2])
  /\ \A i \in 3..5 : IsUpper(id[i]) \/ IsDigit(id[i])
  /\ IsDigit(id[6])

\* C8: validate_structure_info on an entry with no source classifies an id of
\* 4 alphanumeric characters starting with a digit as "pdb", an id matching
\* the UniProt accession pattern as "alphafold", raises for every other id,
\* and raises for an entry without an id.
C8_InferSourceFromId ==
  (Validated /\ NoSource) =>
    IF ~Has(vs.structure_info, "id") THEN vs.out.k = "raise"
    ELSE IF PdbShaped(vs.structure_info.id)
    THEN vs.out = Ret([id |-> vs.structure_info.id, source |-> <<"p","d","b">>])
    ELSE IF AccessionShaped(vs.structure_info.id)
    THEN vs.out = Ret([id |-> vs.structure_info.id, source |-> <<"a","l","p","h","a","f","o","l","d">>])
    ELSE vs.out.k = "raise"

\* a source field that is present, not empty and, lower-cased, not a known value
UnknownSource ==
  /\ IsDict(vs.structure_info)
  /\ Has(vs.structure_info, "source")
  /\ vs.structure_info.source /= <<>>
  /\ Lower(vs.structure_info.source) \notin VALID_SOURCES

\* a source field that is, lower-cased, one of the known values
KnownSource ==
  /\ IsDict(vs.structure_info)
  /\ Has(vs.structure_info, "source")
  /\ Lower(vs.structure_info.source) \in VALID_SOURCES

\* C18 as stated: with a source that is present but not a known value, the
\* source is inferred from the id's shape as for a missing source, and
\* validation fails only if the shape decides neither.
C18_Original ==
  (Validated /\ UnknownSource /\ Has(vs.structure_info, "id")) =>
    IF PdbShaped(vs.structure_info.id)
    THEN vs.out = Ret([id |-> vs.structure_info.id, source |-> <<"p","d","b">>])
    ELSE IF AccessionShaped(vs.structure_info.id)
    THEN vs.out = Ret([id |-> vs.structure_info.id, source |-> <<"a","l","p","h","a","f","o","l","d">>])
    ELSE vs.out.k = "raise"

\* C18: validate_structure_info raises for every entry whose source is
\* present, not empty and, lower-cased, not one of the known values, whatever
\* the shape of its id; an entry with an id whose source is a known value in
\* any letter case is returned with that source in lower case, its id not
\* being looked at.
C18_UnknownSourceRejected ==
  /\ (Validated /\ UnknownSource) => vs.out = RaiseValueError
  /\ (Validated /\ KnownSource /\ Has(vs.structure_info, "id")) =>
       vs.out = Ret([id |-> vs.structure_info.id,
                     source |-> Lower(vs.structure_info.source)])

C18_Witness ==
  /\ Validated
  /\ UnknownSource
  /\ vs.structure_info = [id |-> <<"5","X","Y","Z">>, source |-> <<"r","c","s","b">>]
  /\ PdbShaped(vs.structure_info.id)
  /\ vs.out.k = "raise"

----------------------------------------------------------------------------
(* ProteinStructureAPI.get_structure_summary applied to bounded answers *)

MaxResults == 2

RECURSIVE SeqsUpTo(_, _)
SeqsUpTo(S, n) == IF n = 0 THEN { <<>> }
                  ELSE LET shorter == SeqsUpTo(S, n - 1)
                       IN shorter \cup { Append(q, x) : q \in shorter, x \in S }

\* what search_pdb can return: an error marker, a 200 body without result_set,
\* a result_set of up to MaxResults hits, a result_set whose hit has no identifier
SearchAnswers ==
  { SearchError, [total_count |-> 0] }
  \cup { SearchHits(ids) : ids \in SeqsUpTo(PdbIds, MaxResults) }
  \cup { [result_set |-> << [score |-> 1] >>] }

StructNets ==
  { [search1 |-> s1, search2 |-> s2, details |-> d, alphafold |-> a] :
      s1 \in SearchAnswers, s2 \in SearchAnswers,
      d \in [PdbIds -> {"ok", "status", "exception"}],
      a \in {AlphaFoldOk, AlphaFoldError} }

InitStruct ==
  /\ ServiceInit
  /\ vz = Idle
  /\ rt = Idle
  /\ ps = Idle
  /\ ad = Idle
  /\ ch = Idle
  /\ nt = Idle
  /\ th = Idle
  /\ vs = Idle
  /\ ss \in { [op |-> "input", uniprot_id |-> <<"P","0","4","6","3","7">>, gene_symbol |-> g, net |-> net] :
                g \in { <<>>, <<"T","P","5","3">> }, net \in StructNets }
  /\ dd = Idle

GetStructureSummary ==
  /\ ss.op = "input"
  /\ ss' = [op |-> "get_structure_summary", uniprot_id |-> ss.uniprot_id,
            gene_symbol |-> ss.gene_symbol, net |-> ss.net,
            out |-> get_structure_summary(ss.uniprot_id, ss.gene_symbol, ss.net)]
  /\ UNCHANGED <<cache, first_ret, last, vs, dd, ad, ch, nt, th, ps, vz, rt>>

NextStruct == GetStructureSummary

SpecStruct == InitStruct /\ [][NextStruct]_vars

\* the search answer whose hits the lookup walks, or <<>> when it walks none
HitsWalked ==
  IF SearchUsable(ss.net.search1) THEN ss.net.search1.result_set
  ELSE IF ss.gene_symbol /= <<>> /\ SearchUsable(ss.net.search2) THEN ss.net.search2.result_set
  ELSE <<>>

RECURSIVE OkIds(_)
OkIds(hits) ==
  IF hits = <<>> THEN <<>>
  ELSE (IF ss.net.details[Head(hits).identifier] = "ok"
        THEN << Head(hits).identifier >> ELSE <<>>) \o OkIds(Tail(hits))

Requested(kind, arg) ==
  Cardinality({ i \in 1..Len(ss.out.requests) : ss.out.requests[i] = <<kind, arg>> })
Occurrences(hits, id) ==
  Cardinality({ i \in 1..Len(hits) : hits[i].identifier = id })

----------------------------------------------------------------------------
(* DiseaseDrugAPI lookups applied to bounded gene symbols *)

MaxSymLen == 3

SymAlphabet == {"A", "P", "a", "p"}
SampleSymbols ==
  { <<"T","P","5","3">>, <<"t","p","5","3">>, <<"T","p","5","3">>, <<"B","R","C","A","1">>, <<"b","r","c","a","2">>, <<"E","G","F","R">>, <<"I","N","S">>, <<"i","n","s">>,
    <<"A","P","O","E">>, <<"a","p","o","e">>, <<"T","P","5">>, <<"B","R","C","A">>, <<"I","N","S","R">>, <<"X","Y","Z","1">>, <<"T","P","5","3"," ">> }
GeneSymbols == Strings(SymAlphabet, MaxSymLen) \cup SampleSymbols

InitDD ==
  /\ ServiceInit
  /\ vz = Idle
  /\ rt = Idle
  /\ ps = Idle
  /\ ad = Idle
  /\ ch = Idle
  /\ nt = Idle
  /\ th = Idle
  /\ vs = Idle
  /\ ss = Idle
  /\ dd \in { [op |-> "input", gene_symbol |-> g, answer |-> a] :
                g \in GeneSymbols, a \in DisgenetAnswers }

GetDiseaseAssociations ==
  /\ dd.op = "input"
  /\ dd' = [op |-> "get_disease_associations", gene_symbol |-> dd.gene_symbol,
            answer |-> dd.answer,
            out |-> get_disease_associations(dd.gene_symbol, dd.answer)]
  /\ UNCHANGED <<cache, first_ret, last, vs, ss, ad, ch, nt, th, ps, vz, rt>>

GetDrugAssociations ==
  /\ dd.op = "input"
  /\ dd' = [op |-> "get_drug_associations", gene_symbol |-> dd.gene_symbol,
            answer |-> dd.answer,
            out |-> get_drug_associations(dd.gene_symbol)]
  /\ UNCHANGED <<cache, first_ret, last, vs, ss, ad, ch, nt, th, ps, vz, rt>>

GetDiseaseDrugSummary ==
  /\ dd.op = "input"
  /\ dd' = [op |-> "get_disease_drug_summary", gene_symbol |-> dd.gene_symbol,
            answer |-> dd.answer,
            out |-> get_disease_drug_summary(dd.gene_symbol, dd.answer)]
  /\ UNCHANGED <<cache, first_ret, last, vs, ss, ad, ch, nt, th, ps, vz, rt>>

NextDD ==
  \/ GetDiseaseAssociations
  \/ GetDrugAssociations
  \/ GetDiseaseDrugSummary

SpecDD == InitDD /\ [][NextDD]_vars

\* the entry stored under key in a static table, all keys compared
EntriesUnder(table, key) == { table[i][2] : i \in { j \in 1..Len(table) : table[j][1] = key } }

\* C10: for every gene symbol whose upper-cased form is a key of
\* COMMON_DISEASES (resp. COMMON_DRUGS), get_disease_associations (resp.
\* get_drug_associations) returns exactly that key's table entry, labelled with
\* the gene symbol as given, and issues no network request.
C10_StaticHit ==
  /\ (dd.op = "get_disease_associations"
      /\ EntriesUnder(COMMON_DISEASES, Upper(dd.gene_symbol)) /= {}) =>
       /\ DOMAIN dd.out.ret = {"gene_symbol", "diseases"}
       /\ dd.out.ret.gene_symbol = dd.gene_symbol
       /\ EntriesUnder(COMMON_DISEASES, Upper(dd.gene_symbol)) = { dd.out.ret.diseases }
       /\ dd.out.requests = 0
  /\ (dd.op = "get_drug_associations"
      /\ EntriesUnder(COMMON_DRUGS, Upper(dd.gene_symbol)) /= {}) =>
       /\ DOMAIN dd.out.ret = {"gene_symbol", "drugs"}
       /\ dd.out.ret.gene_symbol = dd.gene_symbol
       /\ EntriesUnder(COMMON_DRUGS, Upper(dd.gene_symbol)) = { dd.out.ret.drugs }
       /\ dd.out.requests = 0

C10_Witness ==
  /\ dd.op = "get_disease_associations"
  /\ dd.gene_symbol = <<"a","p","p">>
  /\ dd.answer.status = "200"
  /\ dd.out.ret.gene_symbol = <<"a","p","p">>
  /\ Len(dd.out.ret.diseases) = 2
  /\ dd.out.ret.diseases[1].disease_name = <<"A","l","z","h","e","i","m","e","r","'","s"," ","d","i","s","e","a","s","e">>
  /\ dd.out.requests = 0

----------------------------------------------------------------------------
(* C12: fuzzy fallback of get_disease_associations *)

\* positions of the COMMON_DISEASES keys that contain, or are contained in,
\* the symbol, compared in lower case
FuzzyKeys(gene_symbol) ==
  { i \in 1..Len(COMMON_DISEASES) :
      \/ Contains(Lower(gene_symbol), Lower(COMMON_DISEASES[i][1]))
      \/ Contains(Lower(COMMON_DISEASES[i][1]), Lower(gene_symbol)) }

FirstFuzzyKey(gene_symbol) ==
  CHOOSE i \in FuzzyKeys(gene_symbol) : \A j \in FuzzyKeys(gene_symbol) : i <= j

FallbackCase ==
  /\ dd.op = "get_disease_associations"
  /\ ~TableHas(COMMON_DISEASES, Upper(dd.gene_symbol))
  /\ dd.answer.status /= "200"

\* C12: when the symbol is not a key of COMMON_DISEASES and the DisGeNET
\* request answers a status other than 200 or raises, get_disease_associations
\* returns a dict labelled with the symbol as given whose diseases are the
\* entry of the first table key, in table order, that contains or is contained
\* in the symbol (case-insensitively), and the empty list when no key matches;
\* it returns no error marker and raises nothing.
C12_FuzzyFallback ==
  FallbackCase =>
    /\ DOMAIN dd.out.ret = {"gene_symbol", "diseases"}
    /\ dd.out.ret.gene_symbol = dd.gene_symbol
    /\ dd.out.ret.diseases =
         IF FuzzyKeys(dd.gene_symbol) = {} THEN <<>>
         ELSE COMMON_DISEASES[FirstFuzzyKey(dd.gene_symbol)][2]

C12_Witness ==
  /\ FallbackCase
  /\ dd.gene_symbol = <<"I","N","S","R">>
  /\ dd.answer.status = "exception"
  /\ FirstFuzzyKey(dd.gene_symbol) > 1
  /\ dd.out.ret.gene_symbol = <<"I","N","S","R">>
  /\ dd.out.ret.diseases = TableGet(COMMON_DISEASES, <<"I","N","S">>)
  /\ Len(dd.out.ret.diseases) > 0

----------------------------------------------------------------------------
(* the cache of ProteinDataService under spellings of one gene symbol *)

\* queries that differ only in letter case or in surrounding whitespace
KeyQueries == { <<"t","p","5","3">>, <<"T","p","5","3">>, <<" ","t","p","5","3"," ">>, <<"t","p","5","3"," ">> }

NextKeys ==
  \/ \E query \in KeyQueries : GetProteinData(query)
  \/ \E query \in KeyQueries : \E user_query \in UserQueries(query) :
       GetProteinChatResponse(query, user_query)

SpecKeys == Init /\ [][NextKeys]_vars

ServiceCalled == last.op \in {"get_protein_data", "get_protein_chat_response"}

\* C16: every cache entry is stored under the key derived from the raw query
\* and holds a record whose query field is that query; queries that differ in
\* letter case or surrounding whitespace are reconciled separately (the first
\* call for each spelling calls the adapters) and occupy distinct entries;
\* a call for q never returns a record built for another query string.
C16_CacheKeyedByRawQuery ==
  /\ \A k \in DOMAIN cache : k = CacheKey(cache[k].query)
  /\ \A q \in DOMAIN first_ret :
       /\ CacheKey(q) \in DOMAIN cache
       /\ cache[CacheKey(q)].query = q
  /\ Cardinality(DOMAIN cache) = Cardinality(DOMAIN first_ret)
  /\ ServiceCalled =>
       /\ last.ret.query = last.query
       /\ ~last.repeat => last.calls /= <<>>

C16_Witness ==
  /\ DOMAIN first_ret = KeyQueries
  /\ Cardinality(DOMAIN cache) = 4
  /\ last.op = "get_protein_data"
  /\ last.query = <<" ","t","p","5","3"," ">>
  /\ last.repeat
  /\ last.calls = <<>>
  /\ last.ret.query = <<" ","t","p","5","3"," ">>
  /\ cache[CacheKey(<<"T","p","5","3">>)].query = <<"T","p","5","3">>

----------------------------------------------------------------------------
(* ProteinDataService.get_protein_chat_response applied to sample questions *)

\* questions naming each keyword, several groups at once, a keyword inside
\* another word, upper-case letters, and no keyword at all
ChatQuestions ==
  { <<"W","h","a","t"," ","i","s"," ","i","t","s"," ","f","u","n","c","t","i","o","n","?">>, <<"W","h","a","t"," ","d","o","e","s"," ","i","t"," ","d","o","?">>, <<"I","t","s"," ","R","O","L","E","?">>,
    <<"W","h","i","c","h"," ","d","i","s","e","a","s","e","?">>, <<"A","n","y"," ","c","o","n","d","i","t","i","o","n","?">>, <<"A","n","y"," ","D","i","s","o","r","d","e","r","?">>,
    <<"W","h","a","t"," ","d","i","s","e","a","s","e"," ","i","s"," ","t","h","i","s"," ","l","i","n","k","e","d"," ","t","o","?">>,
    <<"W","h","i","c","h"," ","d","r","u","g","?">>, <<"A","n","y"," ","m","e","d","i","c","a","t","i","o","n","?">>, <<"A","n","y"," ","t","r","e","a","t","m","e","n","t","?">>,
    <<"S","h","o","w"," ","t","h","e"," ","s","t","r","u","c","t","u","r","e">>, <<"S","h","o","w"," ","i","t"," ","i","n"," ","3","D">>,
    <<"A","n","y"," ","i","n","t","e","r","a","c","t","i","o","n","?">>, <<"I","t","s"," ","p","a","r","t","n","e","r","s","?">>, <<"W","h","a","t"," ","b","i","n","d","s"," ","i","t","?">>,
    <<"W","h","i","c","h"," ","d","r","u","g"," ","t","r","e","a","t","s"," ","t","h","e"," ","d","i","s","e","a","s","e","?">>, <<"W","h","a","t"," ","d","o","e","s"," ","t","h","e"," ","d","r","u","g"," ","d","o","?">>,
    <<"W","h","a","t"," ","d","o","e","s"," ","t","h","e"," ","d","i","s","e","a","s","e"," ","d","o","?">>,
    <<"s","t","r","u","c","t","u","r","e"," ","o","f"," ","t","h","e"," ","d","r","u","g">>, <<"3","d"," ","i","n","t","e","r","a","c","t","i","o","n">>,
    <<"b","i","n","d","i","n","g"," ","p","a","r","t","n","e","r"," ","s","t","r","u","c","t","u","r","e">>, <<"t","r","e","a","t","m","e","n","t"," ","o","f"," ","t","h","e"," ","c","o","n","d","i","t","i","o","n">>,
    <<"I","s"," ","i","t"," ","r","a","n","d","o","m","?">>, <<"T","e","l","l"," ","m","e"," ","m","o","r","e">>, <<"H","e","l","l","o">>, <<>> }

InitChat ==
  /\ ServiceInit
  /\ vz = Idle
  /\ rt = Idle
  /\ ps = Idle
  /\ ad = Idle
  /\ ch \in { [op |-> "input", query |-> query, user_query |-> user_query] :
                query \in Queries, user_query \in ChatQuestions }
  /\ nt = Idle
  /\ th = Idle
  /\ vs = Idle
  /\ ss = Idle
  /\ dd = Idle

\* get_protein_chat_response(ch.query, [], ch.user_query) on a new service
AskChat ==
  /\ ch.op = "input"
  /\ \E env \in Envs(cache, ch.query) :
       LET r == get_protein_data(cache, ch.query, env) IN
       \E sources \in SetOrders(StructureSources(r.ret)) :
         /\ cache' = r.cache
         /\ first_ret' = IF IsRecord(r.ret) THEN Put(first_ret, ch.query, r.ret)
                         ELSE first_ret
         /\ last' = [op |-> "get_protein_chat_response", query |-> ch.query,
                     repeat |-> FALSE, env |-> env,
                     ret |-> r.ret, calls |-> r.calls,
                     user_query |-> ch.user_query,
                     chat |-> get_protein_chat_response(ch.query, r.ret,
                                                        ch.user_query, sources)]
         /\ ch' = [ch EXCEPT !.op = "get_protein_chat_response"]
  /\ UNCHANGED <<vs, ss, dd, ad, nt, th, ps, vz, rt>>

NextChat == AskChat

SpecChat == InitChat /\ [][NextChat]_vars

\* a question was put about a protein for which a record was built
Answered == ch.op = "get_protein_chat_response" /\ IsRecord(last.ret)

\* the keyword groups in the order the handler tests them
KeywordGroups ==
  << { <<"f","u","n","c","t","i","o","n">>, <<"d","o">>, <<"r","o","l","e">> },
     { <<"d","i","s","e","a","s","e">>, <<"c","o","n","d","i","t","i","o","n">>, <<"d","i","s","o","r","d","e","r">> },
     { <<"d","r","u","g">>, <<"m","e","d","i","c","a","t","i","o","n">>, <<"t","r","e","a","t","m","e","n","t">> },
     { <<"s","t","r","u","c","t","u","r","e">>, <<"3","d">> },
     { <<"i","n","t","e","r","a","c","t","i","o","n">>, <<"p","a","r","t","n","e","r">>, <<"b","i","n","d">> } >>

GroupsHit(user_query) ==
  { i \in 1..Len(KeywordGroups) :
      \E kw \in KeywordGroups[i] : Contains(Lower(user_query), kw) }

\* the first group with a keyword in the question; 6, the general summary, when none has
ExpectedBranch(user_query) ==
  IF GroupsHit(user_query) = {} THEN 6
  ELSE CHOOSE i \in GroupsHit(user_query) : \A j \in GroupsHit(user_query) : i <= j

\* the branches whose wording the response carries
BranchesOf(response, protein_data) ==
  { i \in 1..6 :
      \/ i = 1 /\ StartsWith(response, <<"T","h","e"," ","f","u","n","c","t","i","o","n"," ","o","f"," ">>)
      \/ i = 2 /\ \/ Contains(response, <<" ","i","s"," ","a","s","s","o","c","i","a","t","e","d"," ","w","i","t","h"," ","s","e","v","e","r","a","l"," ","d","i","s","e","a","s","e","s",","," ","i","n","c","l","u","d","i","n","g",":"," ">>)
                  \/ StartsWith(response, <<"I"," ","d","o","n","'","t"," ","h","a","v","e"," ","i","n","f","o","r","m","a","t","i","o","n"," ","a","b","o","u","t"," ","d","i","s","e","a","s","e","s"," ","a","s","s","o","c","i","a","t","e","d"," ","w","i","t","h"," ">>)
      \/ i = 3 /\ \/ StartsWith(response, <<"T","h","e","r","e"," ","a","r","e"," ","s","e","v","e","r","a","l"," ","d","r","u","g","s"," ","t","h","a","t"," ","t","a","r","g","e","t"," ">>)
                  \/ StartsWith(response, <<"I"," ","d","o","n","'","t"," ","h","a","v","e"," ","i","n","f","o","r","m","a","t","i","o","n"," ","a","b","o","u","t"," ","d","r","u","g","s"," ","t","h","a","t"," ","t","a","r","g","e","t"," ">>)
      \/ i = 4 /\ \/ Contains(response, <<" ","k","n","o","w","n"," ","s","t","r","u","c","t","u","r","e","s",":"," ">>)
                  \/ StartsWith(response, <<"I"," ","d","o","n","'","t"," ","h","a","v","e"," ","i","n","f","o","r","m","a","t","i","o","n"," ","a","b","o","u","t"," ","t","h","e"," ","3","D"," ","s","t","r","u","c","t","u","r","e"," ","o","f"," ">>)
      \/ i = 5 /\ \/ Contains(response, <<" ","i","n","t","e","r","a","c","t","s"," ","w","i","t","h"," ","s","e","v","e","r","a","l"," ","p","r","o","t","e","i","n","s",","," ","i","n","c","l","u","d","i","n","g",":"," ">>)
                  \/ StartsWith(response, <<"I"," ","d","o","n","'","t"," ","h","a","v","e"," ","i","n","f","o","r","m","a","t","i","o","n"," ","a","b","o","u","t"," ","p","r","o","t","e","i","n","s"," ","t","h","a","t"," ","i","n","t","e","r","a","c","t"," ","w","i","t","h"," ">>)
                  \/ /\ ~IsDict(protein_data.interactions)
                     /\ StartsWith(response, <<"I"," ","e","n","c","o","u","n","t","e","r","e","d"," ","a","n"," ","e","r","r","o","r">>)
      \/ i = 6 /\ StartsWith(response, <<"A","b","o","u","t"," ">>) }

\* the response ends with the attribution sentence naming the record's source
Attributed ==
  EndsWith(last.chat.response,
           <<"T","h","i","s"," ","i","n","f","o","r","m","a","t","i","o","n"," ","w","a","s"," ","r","e","t","r","i","e","v","e","d"," ","f","r","o","m"," ">> \o last.ret.data_source \o <<".">>)

\* C15: for every record and every question, on each route and for every
\* section content the service can store in a record, the response text ends
\* with "This information was retrieved from <data_source>.".
C15_AttributionAlways ==
  Answered => Attributed

\* C14: a question is answered by the branch of the first keyword group, in
\* the order function/do/role, disease/condition/disorder,
\* drug/medication/treatment, structure/3d, interaction/partner/bind, that has
\* a keyword occurring in the lower-cased question; by the general summary
\* when no group has; by the earliest group when several have.
C14_ChatRouting ==
  Answered =>
    BranchesOf(last.chat.response, last.ret) = { ExpectedBranch(last.user_query) }

C14_Witness ==
  /\ Answered
  /\ last.user_query = <<"W","h","i","c","h"," ","d","r","u","g"," ","t","r","e","a","t","s"," ","t","h","e"," ","d","i","s","e","a","s","e","?">>
  /\ GroupsHit(last.user_query) = {2, 3}
  /\ BranchesOf(last.chat.response, last.ret) = {2}
  /\ Contains(last.chat.response, <<"L","i","-","F","r","a","u","m","e","n","i"," ","s","y","n","d","r","o","m","e">>)

----------------------------------------------------------------------------
(* data/uniprot_api.py: UniProtAPI at the level of its HTTP requests *)

COMMON_PROTEINS ==
  << <<<<"T","P","5","3">>, <<"P","0","4","6","3","7">>>>, <<<<"B","R","C","A","1">>, <<"P","3","8","3","9","8">>>>, <<<<"B","R","C","A","2">>, <<"P","5","1","5","8","7">>>>,
     <<<<"E","G","F","R">>, <<"P","0","0","5","3","3">>>>, <<<<"I","N","S">>, <<"P","0","1","3","0","8">>>>, <<<<"A","P","P">>, <<"P","0","5","0","6","7">>>>,
     <<<<"A","P","O","E">>, <<"P","0","2","6","4","9">>>>, <<<<"T","N","F">>, <<"P","0","1","3","7","5">>>>, <<<<"I","L","6">>, <<"P","0","5","2","3","1">>>>,
     <<<<"A","L","B">>, <<"P","0","2","7","6","8">>>>, <<<<"K","R","A","S">>, <<"P","0","1","1","1","6">>>>, <<<<"P","T","E","N">>, <<"P","6","0","4","8","4">>>>,
     <<<<"V","E","G","F","A">>, <<"P","1","5","6","9","2">>>>, <<<<"S","O","D","1">>, <<"P","0","0","4","4","1">>>>, <<<<"C","F","T","R">>, <<"P","1","3","5","6","9">>>> >>

\* re.match(r'^[OPQ][0-9][A-Z0-9]{3}[0-9]$|^[A-NR-Z][0-9]([A-Z][A-Z0-9]{2}[0-9]){1,2}$', s)
MatchAccessionQuery(s) ==
  LET UpperOrDigit(c) == IsUpper(c) \/ IsDigit(c)
      Group(i) == /\ Len(s) >= i + 3
                  /\ IsUpper(s[i])
                  /\ UpperOrDigit(s[i + 1]) /\ UpperOrDigit(s[i + 2])
                  /\ IsDigit(s[i + 3])
  IN \/ /\ Len(s) >= 6
        /\ s[1] \in {"O", "P", "Q"}
        /\ IsDigit(s[2])
        /\ \A i \in 3..5 : UpperOrDigit(s[i])
        /\ IsDigit(s[6])
        /\ DollarAt(s, 6)
     \/ /\ Len(s) >= 6
        /\ IsUpper(s[1]) /\ s[1] \notin {"O", "P", "Q"}
        /\ IsDigit(s[2])
        /\ Group(3)
        /\ \/ DollarAt(s, 6)
           \/ Group(7) /\ DollarAt(s, 10)

\* the UniProtKB document of an entry, reduced to the parts extract_protein_info reads
UniProtEntry(accession) ==
  [primaryAccession |-> accession, function |-> S_FUNC_U,
   organism |-> S_HUMAN, sequence |-> S_SEQ]

\* answer: "ok" (200 with the entry), "status" (not 200) or "exception"
UniProt_get_protein_by_accession(accession, answer) ==
  IF answer = "ok" THEN UniProtEntry(accession)
  ELSE IF answer = "status"
  THEN [error |-> <<"E","r","r","o","r"," ","g","e","t","t","i","n","g"," ","p","r","o","t","e","i","n"," ","b","y"," ","a","c","c","e","s","s","i","o","n",":"," ","5","0","0">>]
  ELSE [error |-> S_EXC]

extract_protein_info(protein_data) ==
  IF Has(protein_data, "error") THEN protein_data
  ELSE UniProtInfo(Get(protein_data, "primaryAccession", <<>>),
                   Get(protein_data, "function", <<>>),
                   Get(protein_data, "organism", <<>>),
                   Get(protein_data, "sequence", <<>>))

EntryRequest(accession) == << "uniprot_entry", accession >>
SearchRequest(term) == << "uniprot_search", term >>

\* the table of well-known symbols not consulted
DirectLookups_NoTable(cleaned_query) ==
  IF MatchAccessionQuery(cleaned_query) THEN << cleaned_query >> ELSE <<>>

\* the accessions search_protein fetches directly before it searches: the
\* table's accession for a well-known symbol, the query itself when it has
\* the shape of an accession
DirectLookups(cleaned_query) ==
  (IF TableHas(COMMON_PROTEINS, cleaned_query)
   THEN << TableGet(COMMON_PROTEINS, cleaned_query) >> ELSE <<>>)
  \o (IF MatchAccessionQuery(cleaned_query) THEN << cleaned_query >> ELSE <<>>)

\* the three search terms tried in turn
SearchTerms(cleaned_query) ==
  << cleaned_query \o <<" ","A","N","D"," ","o","r","g","a","n","i","s","m","_","i","d",":","9","6","0","6">>,
     <<"g","e","n","e",":">> \o cleaned_query \o <<" ","A","N","D"," ","o","r","g","a","n","i","s","m","_","i","d",":","9","6","0","6">>,
     <<"p","r","o","t","e","i","n","_","n","a","m","e",":">> \o cleaned_query \o <<" ","A","N","D"," ","o","r","g","a","n","i","s","m","_","i","d",":","9","6","0","6">> >>

\* net.entry: the answers to the entry requests, in the order they are sent;
\* net.search: the answers to the search requests ("hits", "none", "status",
\* "exception"), in the order they are sent.
\* ret: the returned dict; requests: the requests sent; entries: how many of
\* them were entry requests
RECURSIVE UniProt_search_from(_, _, _, _, _)
UniProt_search_from(cleaned_query, net, k, requests, entries) ==
  IF k > 3
  THEN [ret |-> [error |-> <<"N","o"," ","p","r","o","t","e","i","n"," ","f","o","u","n","d"," ","f","o","r"," ","q","u","e","r","y",":"," ">> \o cleaned_query],
        requests |-> requests, entries |-> entries]
  ELSE LET sent == Append(requests, SearchRequest(SearchTerms(cleaned_query)[k])) IN
       IF net.search[k] = "exception"
       THEN [ret |-> [error |-> S_EXC], requests |-> sent, entries |-> entries]
       ELSE IF net.search[k] = "hits"
       THEN [ret |-> [results |-> << [primaryAccession |-> <<"P","0","4","6","3","7">>] >>, totalHits |-> 1],
             requests |-> sent, entries |-> entries]
       ELSE UniProt_search_from(cleaned_query, net, k + 1, sent, entries)

RECURSIVE UniProt_direct_from(_, _, _, _, _)
UniProt_direct_from(cleaned_query, net, lookups, requests, entries) ==
  IF lookups = <<>>
  THEN UniProt_search_from(cleaned_query, net, 1, requests, entries)
  ELSE LET protein_data == UniProt_get_protein_by_accession(Head(lookups),
                                                            net.entry[entries + 1])
           sent == Append(requests, EntryRequest(Head(lookups)))
       IN IF ~Has(protein_data, "error")
          THEN [ret |-> [results |-> << protein_data >>, totalHits |-> 1],
                requests |-> sent, entries |-> entries + 1]
          ELSE UniProt_direct_from(cleaned_query, net, Tail(lookups), sent, entries + 1)

UniProt_search_protein(query, net) ==
  UniProt_direct_from(Upper(Strip(query)), net, DirectLookups(Upper(Strip(query))), <<>>, 0)

UniProt_get_protein_summary(query, net) ==
  LET search_results == UniProt_search_protein(query, net) IN
  IF Has(search_results.ret, "error")
  THEN [ret |-> UniProtError(query), requests |-> search_results.requests]
  ELSE LET first_hit == search_results.ret.results[1]
           accession == Get(first_hit, "primaryAccession", <<>>)
           protein_data == UniProt_get_protein_by_accession(
                             accession, net.entry[search_results.entries + 1])
           sent == Append(search_results.requests, EntryRequest(accession))
       IN IF accession = <<>>
          THEN [ret |-> UniProtError(query), requests |-> search_results.requests]
          ELSE IF Has(protein_data, "error")
          THEN [ret |-> UniProtError(query), requests |-> sent]
          ELSE [ret |-> extract_protein_info(protein_data), requests |-> sent]

UniProtEntryAnswers == {"ok", "status", "exception"}
UniProtSearchAnswers == {"hits", "none", "status", "exception"}

\* up to three entry requests and three search requests are sent by one call
UniProtNets ==
  { [entry |-> <<e1, e2, e3>>, search |-> <<s1, s2, s3>>] :
      e1 \in UniProtEntryAnswers, e2 \in UniProtEntryAnswers, e3 \in {"ok"},
      s1 \in UniProtSearchAnswers, s2 \in UniProtSearchAnswers,
      s3 \in UniProtSearchAnswers }

----------------------------------------------------------------------------
(* data/ncbi_api.py: NCBIProteinAPI at the level of its HTTP requests *)

\* re.match(r'^[A-Z]{n}_\d+\.\d+$', s)
MatchRefSeq(s, n) ==
  /\ Len(s) >= n + 4
  /\ \A i \in 1..n : IsUpper(s[i])
  /\ s[n + 1] = "_"
  /\ \E dot \in (n + 3)..(Len(s) - 1), end \in (n + 5)..Len(s) :
       /\ dot < end
       /\ s[dot] = "."
       /\ \A i \in (n + 2)..(dot - 1) : IsDigit(s[i])
       /\ \A i \in (dot + 1)..end : IsDigit(s[i])
       /\ DollarAt(s, end)

\* the test of get_protein_summary for a query that looks like an accession
LooksLikeAccession(query) ==
  MatchUniProtAccession(query) \/ MatchRefSeq(query, 2) \/ MatchRefSeq(query, 3)

\* the symbol COMMON_GENE_IDS lists for gene_id; "XYZ1" for any other gene
GeneName(gene_id) ==
  IF \E i \in 1..Len(COMMON_GENE_IDS) : COMMON_GENE_IDS[i][2] = gene_id
  THEN COMMON_GENE_IDS[CHOOSE i \in 1..Len(COMMON_GENE_IDS) :
                         COMMON_GENE_IDS[i][2] = gene_id][1]
  ELSE <<"X","Y","Z","1">>

\* the esummary document of a gene
GeneDoc(gene_id) ==
  [name |-> GeneName(gene_id),
   description |-> GeneName(gene_id) \o <<" ","g","e","n","e"," ","p","r","o","d","u","c","t">>,
   summary |-> S_GENE_SUMMARY,
   organism |-> S_HUMAN]

S_PROTEIN_ID == <<"4","5","5","7","7","5","7">>
S_FASTA_NAME == <<"N","P","_","0","0","0","5","3","7",".","3"," ","c","e","l","l","u","l","a","r"," ","t","u","m","o","r"," ","a","n","t","i","g","e","n"," ","p","5","3">>

NcbiRequest(kind, arg) == << kind, arg >>

\* net: the answer each kind of request gets during the call:
\*   esummary        "ok", "missing" (200 without the gene), "status", "exception"
\*   refseq          "ok", "empty", "status", "exception"
\*   efetch          "ok", "status", "exception"
\* ret: the returned dict; requests: the requests sent
NCBI_get_protein_by_gene_id(gene_id, net) ==
  LET gene_info == GeneDoc(gene_id)
      r1 == << NcbiRequest("esummary", gene_id) >>
      r2 == Append(r1, NcbiRequest("esearch_protein",
                                   gene_info.name \o <<"[","G","e","n","e"," ","N","a","m","e","]"," ","A","N","D"," ","r","e","f","s","e","q","[","F","i","l","t","e","r","]">>))
      r3 == Append(r2, NcbiRequest("efetch", S_PROTEIN_ID))
      bare == GeneRecord(gene_id, gene_info.name, gene_info.description,
                         gene_info.summary, gene_info.organism, <<>>)
      Failed(requests) ==
        [ret |-> [error |-> <<"E","r","r","o","r"," ","g","e","t","t","i","n","g"," ","p","r","o","t","e","i","n"," ","b","y"," ","g","e","n","e"," ","I","D",":"," ">> \o S_EXC],
         requests |-> requests]
  IN IF net.esummary = "exception" THEN Failed(r1)
     ELSE IF net.esummary = "status"
     THEN [ret |-> [error |-> <<"N","C","B","I"," ","G","e","n","e"," ","s","u","m","m","a","r","y"," ","f","a","i","l","e","d"," ","w","i","t","h"," ","s","t","a","t","u","s"," ","c","o","d","e",":"," ","5","0","0">>],
           requests |-> r1]
     ELSE IF net.esummary = "missing"
     THEN [ret |-> [error |-> <<"N","o"," ","g","e","n","e"," ","d","a","t","a"," ","f","o","u","n","d"," ","f","o","r"," ","I","D",":"," ">> \o gene_id], requests |-> r1]
     ELSE IF net.refseq = "exception" THEN Failed(r2)
     ELSE IF net.refseq /= "ok" THEN [ret |-> bare, requests |-> r2]
     ELSE IF net.efetch = "exception" THEN Failed(r3)
     ELSE IF net.efetch = "status"
     THEN [ret |-> [bare EXCEPT !.protein_id = S_PROTEIN_ID], requests |-> r3]
     ELSE [ret |-> [GeneRecord(gene_id, gene_info.name, gene_info.description,
                               gene_info.summary, gene_info.organism, S_SEQ)
                      EXCEPT !.protein_id = S_PROTEIN_ID,
                             !.protein_name = S_FASTA_NAME],
           requests |-> r3]

\* the first gene of COMMON_PROTEINS, in table order, whose accession this is
\* and that COMMON_GENE_IDS lists; <<>> when there is none
RECURSIVE GeneOfAccession(_, _)
GeneOfAccession(accession, i) ==
  IF i > Len(NCBI_COMMON_PROTEINS) THEN <<>>
  ELSE IF NCBI_COMMON_PROTEINS[i][2] = accession
          /\ TableHas(COMMON_GENE_IDS, NCBI_COMMON_PROTEINS[i][1])
  THEN NCBI_COMMON_PROTEINS[i][1]
  ELSE GeneOfAccession(accession, i + 1)

\* net.acc_search answers the accession search "empty", "status" or "exception"
NCBI_get_protein_by_accession(accession, net) ==
  LET gene == GeneOfAccession(accession, 1)
      r1 == << NcbiRequest("esearch_protein", accession \o <<"[","A","c","c","e","s","s","i","o","n","]">>) >>
  IN IF gene /= <<>>
     THEN NCBI_get_protein_by_gene_id(TableGet(COMMON_GENE_IDS, gene), net)
     ELSE IF net.acc_search = "exception"
     THEN [ret |-> [error |-> <<"E","r","r","o","r"," ","g","e","t","t","i","n","g"," ","p","r","o","t","e","i","n"," ","b","y"," ","a","c","c","e","s","s","i","o","n",":"," ">> \o S_EXC],
           requests |-> r1]
     ELSE IF net.acc_search = "status"
     THEN [ret |-> [error |-> <<"N","C","B","I"," ","P","r","o","t","e","i","n"," ","s","e","a","r","c","h"," ","f","a","i","l","e","d"," ","w","i","t","h"," ","s","t","a","t","u","s"," ","c","o","d","e",":"," ","5","0","0">>],
           requests |-> r1]
     ELSE [ret |-> [error |-> <<"N","o"," ","p","r","o","t","e","i","n"," ","f","o","u","n","d"," ","f","o","r"," ","a","c","c","e","s","s","i","o","n",":"," ">> \o accession],
           requests |-> r1]

\* net.gene_search answers "ok" (one gene id, 7157), "empty", "status" or
\* "exception"; net.protein_search answers "empty", "status" or "exception"
\* the steps of search_protein; direct and by_gene are what the two calls of
\* get_protein_by_gene_id return (lines 94 and 125), read only where the code
\* makes the call
NCBI_search_protein_steps(query, net, direct, by_gene) ==
  LET cleaned_query == Upper(Strip(query))
      known == TableHas(NCBI_COMMON_PROTEINS, cleaned_query)
      unmapped == known /\ ~TableHas(COMMON_GENE_IDS, cleaned_query)
      r0 == IF known /\ ~unmapped THEN direct.requests ELSE <<>>
      r1 == Append(r0, NcbiRequest("esearch_gene",
                                   cleaned_query \o <<"[","G","e","n","e"," ","N","a","m","e","]"," ","A","N","D"," ","H","u","m","a","n","[","O","r","g","a","n","i","s","m","]">>))
      r2 == IF net.gene_search = "ok" THEN r1 \o by_gene.requests ELSE r1
      r3 == Append(r2, NcbiRequest("esearch_protein",
                                   cleaned_query \o <<" ","A","N","D"," ","H","u","m","a","n","[","O","r","g","a","n","i","s","m","]">>))
      Failed(requests) ==
        [ret |-> [error |-> <<"E","r","r","o","r"," ","s","e","a","r","c","h","i","n","g"," ","N","C","B","I",":"," ">> \o S_EXC], requests |-> requests]
  IN IF unmapped THEN Failed(<<>>)
     ELSE IF known /\ ~Has(direct.ret, "error")
     THEN [ret |-> [results |-> << direct.ret >>], requests |-> r0]
     ELSE IF net.gene_search = "exception" THEN Failed(r1)
     ELSE IF net.gene_search = "status"
     THEN [ret |-> [error |-> <<"N","C","B","I"," ","G","e","n","e"," ","s","e","a","r","c","h"," ","f","a","i","l","e","d"," ","w","i","t","h"," ","s","t","a","t","u","s"," ","c","o","d","e",":"," ","5","0","0">>],
           requests |-> r1]
     ELSE IF net.gene_search = "ok" /\ ~Has(by_gene.ret, "error")
     THEN [ret |-> [results |-> << by_gene.ret >>], requests |-> r2]
     ELSE IF net.protein_search = "exception" THEN Failed(r3)
     ELSE IF net.protein_search = "status"
     THEN [ret |-> [error |-> <<"N","C","B","I"," ","P","r","o","t","e","i","n"," ","s","e","a","r","c","h"," ","f","a","i","l","e","d"," ","w","i","t","h"," ","s","t","a","t","u","s"," ","c","o","d","e",":"," ","5","0","0">>],
           requests |-> r3]
     ELSE [ret |-> NcbiError(query), requests |-> r3]

NCBI_search_protein(query, net) ==
  NCBI_search_protein_steps(
    query, net,
    NCBI_get_protein_by_gene_id(TableGet(COMMON_GENE_IDS, Upper(Strip(query))), net),
    NCBI_get_protein_by_gene_id(<<"7","1","5","7">>, net))

\* the steps of get_protein_summary; by_accession, by_gene_id and
\* search_results are what the calls of lines 386, 393 and 398 return, read
\* only where the code makes the call
NCBI_get_protein_summary_steps(query, by_accession, by_gene_id, search_results) ==
  LET r1 == IF LooksLikeAccession(query) THEN by_accession.requests ELSE <<>>
      known == TableHas(COMMON_GENE_IDS, Upper(query))
      r2 == IF known THEN r1 \o by_gene_id.requests ELSE r1
      r3 == r2 \o search_results.requests
  IN IF LooksLikeAccession(query) /\ ~Has(by_accession.ret, "error")
     THEN [ret |-> format_protein_data(by_accession.ret), requests |-> r1]
     ELSE IF known /\ ~Has(by_gene_id.ret, "error")
     THEN [ret |-> format_protein_data(by_gene_id.ret), requests |-> r2]
     ELSE IF Has(search_results.ret, "error")
     THEN [ret |-> [error |-> search_results.ret.error], requests |-> r3]
     ELSE [ret |-> format_protein_data(search_results.ret.results[1]), requests |-> r3]

NCBI_get_protein_summary(query, net) ==
  NCBI_get_protein_summary_steps(
    query,
    NCBI_get_protein_by_accession(query, net),
    NCBI_get_protein_by_gene_id(TableGet(COMMON_GENE_IDS, Upper(query)), net),
    NCBI_search_protein(query, net))

NcbiNets ==
  { [esummary |-> a, refseq |-> b, efetch |-> c, gene_search |-> d,
     protein_search |-> e, acc_search |-> f] :
      a \in {"ok", "missing", "status", "exception"},
      b \in {"ok", "empty", "status", "exception"},
      c \in {"ok", "status", "exception"},
      d \in {"ok", "empty", "status", "exception"},
      e \in {"empty", "status", "exception"},
      f \in {"empty", "status", "exception"} }

----------------------------------------------------------------------------
(* the five adapter entry points the service calls, one call on a given network *)

AdapterQueries ==
  { <<"T","P","5","3">>, <<"t","p","5","3">>, <<"B","r","c","a","1">>, <<" ","t","p","5","3"," ">>, <<"P","0","4","6","3","7">>, <<"X","Y","Z","1">>, <<"N","P","_","0","0","0","5","3","7",".","3">> }

A_UniProt == "UniProtAPI.get_protein_summary"
A_Ncbi == "NCBIProteinAPI.get_protein_summary"
A_Structure == "ProteinStructureAPI.get_structure_summary"
A_Interaction == "ProteinInteractionAPI.get_interactions"
A_DiseaseDrug == "DiseaseDrugAPI.get_disease_drug_summary"

AdapterInputs ==
  { [op |-> "input", adapter |-> A_UniProt, args |-> <<query>>, net |-> net] :
      query \in AdapterQueries, net \in UniProtNets }
  \cup { [op |-> "input", adapter |-> A_Ncbi, args |-> <<query>>, net |-> net] :
           query \in AdapterQueries, net \in NcbiNets }
  \cup { [op |-> "input", adapter |-> A_Structure, args |-> << <<"P","0","4","6","3","7">>, g >>, net |-> net] :
           g \in { <<>>, <<"T","P","5","3">> }, net \in StructNets }
  \cup { [op |-> "input", adapter |-> A_Interaction, args |-> <<g>>, net |-> [string |-> a]] :
           g \in { <<>>, <<"T","P","5","3">>, <<"X","Y","Z","1">> }, a \in {"ok", "status", "exception"} }
  \cup { [op |-> "input", adapter |-> A_DiseaseDrug, args |-> <<g>>, net |-> a] :
           g \in { <<"T","P","5","3">>, <<"t","p","5","3">>, <<"I","N","S","R">>, <<"X","Y","Z","1">> }, a \in DisgenetAnswers }

InitAdapters ==
  /\ ServiceInit
  /\ vz = Idle
  /\ rt = Idle
  /\ ps = Idle
  /\ ad \in AdapterInputs
  /\ ch = Idle
  /\ nt = Idle
  /\ th = Idle
  /\ vs = Idle
  /\ ss = Idle
  /\ dd = Idle

Returned(call, outcome, requests) ==
  [op |-> "called", adapter |-> call.adapter, args |-> call.args, net |-> call.net,
   outcome |-> outcome, requests |-> requests]

CallUniProt ==
  /\ ad.op = "input" /\ ad.adapter = A_UniProt
  /\ LET r == UniProt_get_protein_summary(ad.args[1], ad.net)
     IN ad' = Returned(ad, Ret(r.ret), r.requests)
  /\ UNCHANGED <<cache, first_ret, last, vs, ss, dd, ch, nt, th, ps, vz, rt>>

CallNcbi ==
  /\ ad.op = "input" /\ ad.adapter = A_Ncbi
  /\ LET r == NCBI_get_protein_summary(ad.args[1], ad.net)
     IN ad' = Returned(ad, Ret(r.ret), r.requests)
  /\ UNCHANGED <<cache, first_ret, last, vs, ss, dd, ch, nt, th, ps, vz, rt>>

CallStructure ==
  /\ ad.op = "input" /\ ad.adapter = A_Structure
  /\ LET r == get_structure_summary(ad.args[1], ad.args[2], ad.net)
     IN ad' = Returned(ad, r.ret, r.requests)
  /\ UNCHANGED <<cache, first_ret, last, vs, ss, dd, ch, nt, th, ps, vz, rt>>

CallInteraction ==
  /\ ad.op = "input" /\ ad.adapter = A_Interaction
  /\ ad' = Returned(ad, get_interactions(ad.args[1], ad.net.string),
                    IF ad.args[1] = <<>> THEN <<>>
                    ELSE << << "string_interactions", ad.args[1] >> >>)
  /\ UNCHANGED <<cache, first_ret, last, vs, ss, dd, ch, nt, th, ps, vz, rt>>

CallDiseaseDrug ==
  /\ ad.op = "input" /\ ad.adapter = A_DiseaseDrug
  /\ LET r == get_disease_drug_summary(ad.args[1], ad.net)
     IN ad' = Returned(ad, Ret(r.ret),
                       [i \in 1..r.requests |-> << "disgenet", ad.args[1] >>])
  /\ UNCHANGED <<cache, first_ret, last, vs, ss, dd, ch, nt, th, ps, vz, rt>>

NextAdapters ==
  \/ CallUniProt
  \/ CallNcbi
  \/ CallStructure
  \/ CallInteraction
  \/ CallDiseaseDrug

SpecAdapters == InitAdapters /\ [][NextAdapters]_vars

Called(adapter) == ad.op = "called" /\ ad.adapter = adapter

Failing(answer) == answer \in {"status", "exception"}

\* a request the call sent was answered by a status other than 2xx or by a
\* transport exception, and every 200 body had the documented shape
NetworkFailed ==
  \/ /\ Called(A_UniProt)
     /\ \E i \in 1..3 : Failing(ad.net.entry[i]) \/ Failing(ad.net.search[i])
  \/ /\ Called(A_Ncbi)
     /\ \E f \in DOMAIN ad.net : Failing(ad.net[f])
  \/ /\ Called(A_Structure)
     /\ \/ Has(ad.net.search1, "error")
        \/ Has(ad.net.search2, "error")
        \/ Has(ad.net.alphafold, "error")
        \/ \E id \in DOMAIN ad.net.details : ad.net.details[id] /= "ok"
     /\ \A s \in {ad.net.search1, ad.net.search2} :
          Has(s, "result_set") =>
            \A i \in 1..Len(s.result_set) : Has(s.result_set[i], "identifier")
  \/ /\ Called(A_Interaction)
     /\ Failing(ad.net.string)
  \/ /\ Called(A_DiseaseDrug)
     /\ ad.net.status /= "200"

\* C13: for each of the five adapter entry points, a response other than 2xx
\* or a transport exception on any of its network calls yields a returned
\* value (an error marker or an empty result); the entry point never raises
\* to its caller.
C13_AdapterNeverRaises ==
  NetworkFailed => ad.outcome.k = "ret"

----------------------------------------------------------------------------
(* C11: the static tables of the two identity adapters *)

UniProtStaticHit == Called(A_UniProt) /\ TableHas(COMMON_PROTEINS, Upper(ad.args[1]))
NcbiStaticHit == Called(A_Ncbi) /\ TableHas(COMMON_GENE_IDS, Upper(ad.args[1]))

TableAccession == TableGet(COMMON_PROTEINS, Upper(ad.args[1]))
TableGeneId == TableGet(COMMON_GENE_IDS, Upper(ad.args[1]))

RequestKinds == { ad.requests[i][1] : i \in 1..Len(ad.requests) }

\* the requests get_protein_by_gene_id sends all get an answer it can use
GeneFetchAnswered ==
  /\ ad.net.esummary = "ok"
  /\ ad.net.refseq /= "exception"
  /\ ad.net.refseq = "ok" => ad.net.efetch /= "exception"

----------------------------------------------------------------------------
(* one get_protein_data call, request by request, on a network some of whose
   endpoints never answer *)

Endpoints == {"uniprot", "eutils", "rcsb", "alphafold", "string", "disgenet"}

\* the session.get / session.post calls one get_protein_data call passes, in
\* order, for a symbol that needs a UniProt search and a DisGeNET lookup:
\* the adapter, the line of the call, the endpoint, and its timeout argument
CallSites ==
  << [adapter |-> A_UniProt, file |-> "uniprot_api.py", line |-> 84,
      endpoint |-> "uniprot", timeout |-> "None"],
     [adapter |-> A_UniProt, file |-> "uniprot_api.py", line |-> 130,
      endpoint |-> "uniprot", timeout |-> "None"],
     [adapter |-> A_Ncbi, file |-> "ncbi_api.py", line |-> 110,
      endpoint |-> "eutils", timeout |-> "None"],
     [adapter |-> A_Ncbi, file |-> "ncbi_api.py", line |-> 180,
      endpoint |-> "eutils", timeout |-> "None"],
     [adapter |-> A_Ncbi, file |-> "ncbi_api.py", line |-> 202,
      endpoint |-> "eutils", timeout |-> "None"],
     [adapter |-> A_Ncbi, file |-> "ncbi_api.py", line |-> 224,
      endpoint |-> "eutils", timeout |-> "None"],
     [adapter |-> A_Structure, file |-> "structure_api.py", line |-> 104,
      endpoint |-> "rcsb", timeout |-> "None"],
     [adapter |-> A_Structure, file |-> "structure_api.py", line |-> 136,
      endpoint |-> "rcsb", timeout |-> "None"],
     [adapter |-> A_Structure, file |-> "structure_api.py", line |-> 120,
      endpoint |-> "alphafold", timeout |-> "None"],
     [adapter |-> A_Interaction, file |-> "interaction_api.py", line |-> 49,
      endpoint |-> "string", timeout |-> "None"],
     [adapter |-> A_DiseaseDrug, file |-> "disease_drug_api.py", line |-> 100,
      endpoint |-> "disgenet", timeout |-> "10"] >>

\* the first call site after site i that belongs to another adapter
RECURSIVE NextAdapterSite(_, _)
NextAdapterSite(i, j) ==
  IF j > Len(CallSites) THEN j
  ELSE IF CallSites[j].adapter /= CallSites[i].adapter THEN j
  ELSE NextAdapterSite(i, j + 1)

\* silent: the endpoints that accept a request and never answer it
InitNet ==
  /\ ServiceInit
  /\ vz = Idle
  /\ rt = Idle
  /\ ps = Idle
  /\ ad = Idle
  /\ ch = Idle
  /\ nt \in { [op |-> "get_protein_data", site |-> 1, waiting |-> FALSE,
               silent |-> s, expired |-> {}] : s \in SUBSET Endpoints }
  /\ th = Idle
  /\ vs = Idle
  /\ ss = Idle
  /\ dd = Idle

Running == nt.op = "get_protein_data" /\ nt.site <= Len(CallSites)

\* the adapter sends the request of the current call site
SendRequest ==
  /\ Running /\ ~nt.waiting
  /\ nt' = [nt EXCEPT !.waiting = TRUE]
  /\ UNCHANGED <<cache, first_ret, last, vs, ss, dd, ad, ch, th, ps, vz, rt>>

\* the endpoint answers; the call goes on to its next request
ReceiveAnswer ==
  /\ Running /\ nt.waiting
  /\ CallSites[nt.site].endpoint \notin nt.silent
  /\ nt' = [nt EXCEPT !.waiting = FALSE, !.site = @ + 1]
  /\ UNCHANGED <<cache, first_ret, last, vs, ss, dd, ad, ch, th, ps, vz, rt>>

\* the timeout of the request expires: requests raises, the adapter's except
\* branch returns its error marker or fallback, the service calls the next adapter
TimeoutExpires ==
  /\ Running /\ nt.waiting
  /\ CallSites[nt.site].endpoint \in nt.silent
  /\ CallSites[nt.site].timeout /= "None"
  /\ nt' = [nt EXCEPT !.waiting = FALSE,
                      !.site = NextAdapterSite(nt.site, nt.site + 1),
                      !.expired = @ \cup {CallSites[nt.site].line}]
  /\ UNCHANGED <<cache, first_ret, last, vs, ss, dd, ad, ch, th, ps, vz, rt>>

\* get_protein_data returns to its caller
ReturnToCaller ==
  /\ nt.op = "get_protein_data" /\ nt.site > Len(CallSites)
  /\ nt' = [nt EXCEPT !.op = "returned"]
  /\ UNCHANGED <<cache, first_ret, last, vs, ss, dd, ad, ch, th, ps, vz, rt>>

NextNet ==
  \/ SendRequest
  \/ ReceiveAnswer
  \/ TimeoutExpires
  \/ ReturnToCaller

SpecNet == InitNet /\ [][NextNet]_vars

\* the call waits for an answer that never comes, on a request without timeout
WaitsForever ==
  /\ Running /\ nt.waiting
  /\ CallSites[nt.site].endpoint \in nt.silent
  /\ CallSites[nt.site].timeout = "None"

\* C17: a get_protein_data call returns even when an endpoint never answers:
\* every network call of the five adapters is bounded by a timeout, so the
\* call is never left waiting on a request that nothing will end.
C17_NoRequestWaitsForever ==
  ~WaitsForever

----------------------------------------------------------------------------
(* two threads calling get_protein_data on one ProteinDataService: the cache
   test, the reconciliation and the cache write are separate steps, nothing
   locks the cache *)

Threads == {1, 2}
ThreadQueries == Queries

\* the test of line 32 never finding the key
CacheHit_Never(c, cache_key) == FALSE

\* the test of line 32
CacheHit(c, cache_key) == cache_key \in DOMAIN c

\* lines 36-151 for a call that found no entry: the adapters are called and
\* the record (or the error dict) is built; the cache is not read again
Reconciliation(query, env) == get_protein_data(EmptyMap, query, env)

\* the adapter answers the calls of this section meet: UniProt complete, with
\* gaps or failing, NCBI with a bare gene record, a protein record or failing
ThreadEnvs(c, query) ==
  IF CacheHit(c, CacheKey(query)) THEN {NoEnv}
  ELSE { env \in Envs(EmptyMap, query) :
           \/ ~Rich(query)
           \/ /\ env.u \in {Ret(U_Full), Ret(U_Gaps), Ret(UniProtError(query))}
              /\ env.n \in {Ret(N_TP53_Bare), Ret(N_Protein), Ret(NcbiError(query))}
              /\ env.m.k /= "raise" }

NoLater == [op |-> "none", query |-> <<>>, ret |-> [none |-> TRUE], calls |-> <<>>]

\* pc: "check", "reconcile", "write", "done"; seen: how many cache writes
\* had been made when the call tested the cache
InitThreads ==
  /\ ServiceInit
  /\ vz = Idle
  /\ rt = Idle
  /\ ps = Idle
  /\ ad = Idle
  /\ ch = Idle
  /\ nt = Idle
  /\ th \in { [calls |-> [t \in Threads |->
                            [pc |-> "check", query |-> q[t], seen |-> 0, env |-> NoEnv,
                             ret |-> [none |-> TRUE], calls |-> <<>>]],
               writes |-> <<>>, later |-> NoLater] : q \in [Threads -> ThreadQueries] }
  /\ vs = Idle
  /\ ss = Idle
  /\ dd = Idle

\* lines 31-34: the key is in the cache and its record is returned, or it is not
CheckCache(t) ==
  LET me == th.calls[t] IN
  /\ me.pc = "check"
  /\ th' = [th EXCEPT !.calls[t] =
              IF CacheHit(cache, CacheKey(me.query))
              THEN [me EXCEPT !.pc = "done", !.ret = cache[CacheKey(me.query)],
                              !.seen = Len(th.writes)]
              ELSE [me EXCEPT !.pc = "reconcile", !.seen = Len(th.writes)]]
  /\ UNCHANGED <<cache, first_ret, last, vs, ss, dd, ad, ch, nt, ps, vz, rt>>

\* lines 36-151: the adapters answer this call; an error dict is returned at once
Reconcile(t) ==
  LET me == th.calls[t] IN
  /\ me.pc = "reconcile"
  /\ \E env \in ThreadEnvs(EmptyMap, me.query) :
       LET r == Reconciliation(me.query, env) IN
       th' = [th EXCEPT !.calls[t] =
                [me EXCEPT !.pc = IF IsRecord(r.ret) THEN "write" ELSE "done",
                           !.env = env, !.ret = r.ret, !.calls = r.calls]]
  /\ UNCHANGED <<cache, first_ret, last, vs, ss, dd, ad, ch, nt, ps, vz, rt>>

\* lines 153-156: the record is stored under the key and returned
WriteCache(t) ==
  LET me == th.calls[t] IN
  /\ me.pc = "write"
  /\ cache' = CacheStore(cache, CacheKey(me.query), me.ret)
  /\ th' = [th EXCEPT !.calls[t] = [me EXCEPT !.pc = "done"],
                      !.writes = Append(@, t)]
  /\ UNCHANGED <<first_ret, last, vs, ss, dd, ad, ch, nt, ps, vz, rt>>

BothDone == \A t \in Threads : th.calls[t].pc = "done"

\* a call made after the two have returned
LaterCall(query) ==
  /\ BothDone
  /\ th.later.op = "none"
  /\ \E env \in ThreadEnvs(cache, query) :
       LET r == get_protein_data(cache, query, env) IN
       /\ cache' = r.cache
       /\ th' = [th EXCEPT !.later = [op |-> "get_protein_data", query |-> query,
                                      ret |-> r.ret, calls |-> r.calls]]
  /\ UNCHANGED <<first_ret, last, vs, ss, dd, ad, ch, nt, ps, vz, rt>>

NextThreads ==
  \/ \E t \in Threads : CheckCache(t)
  \/ \E t \in Threads : Reconcile(t)
  \/ \E t \in Threads : WriteCache(t)
  \/ \E query \in ThreadQueries : LaterCall(query)

SpecThreads == InitThreads /\ [][NextThreads]_vars

SameQuery == th.calls[1].query = th.calls[2].query

IdentityCalls(calls) ==
  { i \in 1..Len(calls) : calls[i].api \in {"uniprot", "ncbi"} }

CallsOf(t, api) == { i \in 1..Len(th.calls[t].calls) : th.calls[t].calls[i].api = api }

\* C19 as stated: when two calls for the same uncached query run
\* concurrently, the cache test and the cache write act atomically, so the
\* identity adapters are invoked by at most one of the two calls.
C19_Original ==
  SameQuery =>
    ~(IdentityCalls(th.calls[1].calls) /= {} /\ IdentityCalls(th.calls[2].calls) /= {})

\* C19: of two concurrent calls for the same query, each invokes each
\* identity adapter at most once; a call that tests the cache after a write
\* for the key invokes no adapter and returns the cached record, while a call
\* that tests it before any write reconciles on its own, so both calls may
\* invoke the identity adapters.
C19_AtMostOncePerCall ==
  SameQuery =>
    \A t \in Threads :
      /\ Cardinality(CallsOf(t, "uniprot")) <= 1
      /\ Cardinality(CallsOf(t, "ncbi")) <= 1
      /\ (th.calls[t].pc /= "check" /\ th.calls[t].seen > 0) =>
           /\ th.calls[t].pc = "done"
           /\ th.calls[t].calls = <<>>
           /\ th.calls[t].ret = cache[CacheKey(th.calls[t].query)]
      /\ (th.calls[t].pc \in {"write", "done"} /\ th.calls[t].seen = 0) =>
           Cardinality(CallsOf(t, "uniprot")) = 1

C19_Witness ==
  /\ SameQuery
  /\ BothDone
  /\ \A t \in Threads : th.calls[t].seen = 0 /\ IdentityCalls(th.calls[t].calls) /= {}
  /\ Len(th.writes) = 2

LastWriter == th.writes[Len(th.writes)]

\* the call whose adapter answers the record returned by call t was built
\* from: call t itself when it reconciled, the other call when t found the entry
BuiltBy(t) == IF th.calls[t].calls /= <<>> THEN t ELSE CHOOSE o \in Threads : o /= t

\* C20: for every interleaving of two concurrent calls for the same query,
\* each call returns a complete record built only from the answers its own
\* adapter calls got (a call that finds the entry already written returns the
\* writer's record as it is: no record mixes the answers of two calls); once
\* a record has been written the cache holds exactly one entry for the query,
\* equal to the record written by the call that wrote last, and a later call
\* for the query returns that record without calling an adapter.
C20_LastWriteWins ==
  SameQuery =>
    /\ \A t \in Threads :
         (th.calls[t].pc \in {"write", "done"} /\ IsRecord(th.calls[t].ret)) =>
           /\ th.calls[t].ret = Reconciliation(th.calls[t].query,
                                               th.calls[BuiltBy(t)].env).ret
           /\ DOMAIN th.calls[t].ret = {"query", "basic_info", "structure", "interactions",
                                        "disease_drug", "data_source", "ai_generated"}
           /\ th.calls[t].ret.query = th.calls[t].query
           /\ th.calls[t].ret.disease_drug =
                Section(EmptyDiseaseDrug, th.calls[BuiltBy(t)].env.d)
           /\ th.calls[t].seen = 0 => BuiltBy(t) = t
    /\ th.writes /= <<>> =>
         /\ Cardinality({ k \in DOMAIN cache : cache[k].query = th.calls[1].query }) = 1
         /\ cache[CacheKey(th.calls[1].query)] = th.calls[LastWriter].ret
         /\ (th.later.op = "get_protein_data" /\ th.later.query = th.calls[1].query) =>
              /\ th.later.ret = th.calls[LastWriter].ret
              /\ th.later.calls = <<>>

C20_Witness ==
  /\ SameQuery
  /\ th.writes = <<1, 2>>
  /\ th.calls[1].seen = 0 /\ th.calls[2].seen = 0
  /\ th.calls[1].ret /= th.calls[2].ret
  /\ th.later.op = "get_protein_data"
  /\ th.later.query = th.calls[1].query
  /\ th.later.ret = th.calls[2].ret
  /\ cache[CacheKey(th.calls[1].query)] = th.calls[2].ret

----------------------------------------------------------------------------
(* the disease answer of get_protein_chat_response *)

\* the indices at which p occurs in s
Positions(s, p) ==
  { i \in 1..(Len(s) - Len(p) + 1) : SubSeq(s, i, i + Len(p) - 1) = p }

FirstPosition(s, p) == CHOOSE i \in Positions(s, p) : \A j \in Positions(s, p) : i <= j

\* the list item that names disease d
DiseaseItem(d) == <<"\n","-"," ">> \o d.disease_name \o <<":"," ">>

RecordDiseases == last.ret.disease_drug.diseases

\* the question took the disease route and the record has diseases
DiseaseAnswered ==
  /\ Answered
  /\ ExpectedBranch(last.user_query) = 2
  /\ RecordDiseases /= <<>>

\* C21: on the disease route with n >= 1 diseases in the record, the response
\* lists exactly the first min(3, n) diseases, in record order, and names no
\* later one; for "TP53" with the canned table and the question "What disease
\* is this linked to?" it contains "Li-Fraumeni syndrome", "Colorectal
\* cancer" and "Breast cancer".
C21_DiseaseRouteContent ==
  DiseaseAnswered =>
    LET n == Len(RecordDiseases)
        k == IF n < 3 THEN n ELSE 3
        response == last.chat.response
    IN /\ Cardinality(Positions(response, <<"\n","-"," ">>)) = k
       /\ \A i \in 1..k : Positions(response, DiseaseItem(RecordDiseases[i])) /= {}
       /\ \A i \in 1..k : \A j \in 1..k :
            i < j => FirstPosition(response, DiseaseItem(RecordDiseases[i]))
                       < FirstPosition(response, DiseaseItem(RecordDiseases[j]))
       /\ \A i \in (k + 1)..n : ~Contains(response, RecordDiseases[i].disease_name)
       /\ ( /\ last.query = <<"T","P","5","3">>
            /\ last.user_query = <<"W","h","a","t"," ","d","i","s","e","a","s","e"," ","i","s"," ","t","h","i","s"," ","l","i","n","k","e","d"," ","t","o","?">>
            /\ RecordDiseases = TableGet(COMMON_DISEASES, <<"T","P","5","3">>) )
          => /\ Contains(response, <<"L","i","-","F","r","a","u","m","e","n","i"," ","s","y","n","d","r","o","m","e">>)
             /\ Contains(response, <<"C","o","l","o","r","e","c","t","a","l"," ","c","a","n","c","e","r">>)
             /\ Contains(response, <<"B","r","e","a","s","t"," ","c","a","n","c","e","r">>)

\* a record with four diseases, of which the answer names three
C21_Witness ==
  /\ DiseaseAnswered
  /\ Len(RecordDiseases) = 4
  /\ RecordDiseases[4].disease_name = <<"L","y","m","p","h","o","m","a">>
  /\ Contains(last.chat.response, <<"\n","-"," ","M","e","l","a","n","o","m","a",":"," ","d","i","s","e","a","s","e">>)
  /\ ~Contains(last.chat.response, <<"L","y","m","p","h","o","m","a">>)

\* the question of the specification's example, answered from the canned table
CannedDiseaseAnswer ==
  /\ DiseaseAnswered
  /\ last.query = <<"T","P","5","3">>
  /\ last.user_query = <<"W","h","a","t"," ","d","i","s","e","a","s","e"," ","i","s"," ","t","h","i","s"," ","l","i","n","k","e","d"," ","t","o","?">>
  /\ RecordDiseases = TableGet(COMMON_DISEASES, <<"T","P","5","3">>)

----------------------------------------------------------------------------
(* the requests one adapter call sends *)

\* no request (endpoint and parameters) occurs twice in the log
NoDuplicates(requests) ==
  \A i \in 1..Len(requests) : \A j \in 1..Len(requests) :
    i /= j => requests[i] /= requests[j]

\* C22: within one get_protein_data call no adapter issues the same request
\* (same endpoint, same parameters) more than once, whether the first attempt
\* succeeded or failed.
C22_NoRepeatedRequest ==
  ad.op = "called" => NoDuplicates(ad.requests)

----------------------------------------------------------------------------
(* one process with several ProteinDataService objects: streamlit_app.py
   builds a ProteinDataService at line 199 every time the script runs, and
   each object has the cache its __init__ made *)

MaxServices == 2

\* services: the cache of each ProteinDataService built so far;
\* reconciled: the queries some service has reconciled to a record
InitProcess ==
  /\ cache = EmptyMap
  /\ first_ret = EmptyMap
  /\ last = LastInit
  /\ vz = Idle
  /\ rt = Idle
  /\ ps = [services |-> <<>>, reconciled |-> {},
           last |-> [op |-> "none", service |-> 0, query |-> <<>>, known |-> FALSE,
                     ret |-> [none |-> TRUE], calls |-> <<>>]]
  /\ ad = Idle
  /\ ch = Idle
  /\ nt = Idle
  /\ th = Idle
  /\ vs = Idle
  /\ ss = Idle
  /\ dd = Idle

\* protein_service = ProteinDataService(): __init__ gives the object an empty cache
NewService ==
  /\ Len(ps.services) < MaxServices
  /\ ps' = [ps EXCEPT !.services = Append(@, EmptyMap)]
  /\ UNCHANGED <<cache, first_ret, last, vs, ss, dd, ad, ch, nt, th, vz, rt>>

\* service i answers get_protein_data(query); known: some service of the
\* process had reconciled the query before this call
ServeQuery(i, query) ==
  /\ i \in 1..Len(ps.services)
  /\ \E env \in ThreadEnvs(ps.services[i], query) :
       LET r == get_protein_data(ps.services[i], query, env) IN
       ps' = [services |-> [ps.services EXCEPT ![i] = r.cache],
              reconciled |-> IF IsRecord(r.ret) THEN ps.reconciled \cup {query}
                             ELSE ps.reconciled,
              last |-> [op |-> "get_protein_data", service |-> i, query |-> query,
                        known |-> query \in ps.reconciled,
                        ret |-> r.ret, calls |-> r.calls]]
  /\ UNCHANGED <<cache, first_ret, last, vs, ss, dd, ad, ch, nt, th, vz, rt>>

NextProcess ==
  \/ NewService
  \/ \E i \in 1..MaxServices : \E query \in Queries : ServeQuery(i, query)

SpecProcess == InitProcess /\ [][NextProcess]_vars

\* C23: a query reconciled to a record through one ProteinDataService is a
\* cache hit, with no adapter call, for every later get_protein_data call with
\* the same query in the same process, whichever ProteinDataService serves it.
C23_ProcessLifetimeCache ==
  (ps.last.op = "get_protein_data" /\ ps.last.known) => ps.last.calls = <<>>

----------------------------------------------------------------------------
(* utils/visualization.py: fetch_alphafold_structure *)

\* the model file versions in the order they are requested
ModelVersions_Ascending == << "2", "3", "4" >>

ModelVersions == << "4", "3", "2" >>

PredictionUrl(uniprot_id) == <<"h","t","t","p","s",":","/","/","a","l","p","h","a","f","o","l","d",".","e","b","i",".","a","c",".","u","k","/","a","p","i","/","p","r","e","d","i","c","t","i","o","n","/">> \o uniprot_id

ModelUrl(uniprot_id, version) ==
  <<"h","t","t","p","s",":","/","/","a","l","p","h","a","f","o","l","d",".","e","b","i",".","a","c",".","u","k","/","f","i","l","e","s","/","A","F","-">> \o uniprot_id \o <<"-","F","1","-","m","o","d","e","l","_","v">>
  \o <<version>> \o <<".","p","d","b">>

\* response.text of a model file
ModelText(uniprot_id, version) == <<"H","E","A","D","E","R"," ","A","F","-">> \o uniprot_id \o <<" ","v">> \o <<version>>

FetchNone == [none |-> TRUE]

\* the requests for the model files from the k-th version on: a 200 answer
\* returns the text, another status goes to the next version, an exception
\* leaves through the handler of lines 170-172
RECURSIVE FetchModelFrom(_, _, _, _)
FetchModelFrom(uniprot_id, net, k, requests) ==
  IF k > Len(ModelVersions) THEN [ret |-> FetchNone, requests |-> requests]
  ELSE LET version == ModelVersions[k]
           sent == Append(requests, ModelUrl(uniprot_id, version))
       IN IF net.files[version] = "exception" THEN [ret |-> FetchNone, requests |-> sent]
          ELSE IF net.files[version] = "200"
          THEN [ret |-> [text |-> ModelText(uniprot_id, version)], requests |-> sent]
          ELSE FetchModelFrom(uniprot_id, net, k + 1, sent)

\* net.check: the answer of the prediction check; net.files[v]: the answer of
\* the request for the model file of version v; an answer is a status code or
\* "exception". ret: the text or None; requests: the URLs requested, in order
fetch_alphafold_structure(uniprot_id, net) ==
  LET requests == << PredictionUrl(uniprot_id) >>
  IN IF net.check /= "200" THEN [ret |-> FetchNone, requests |-> requests]
     ELSE FetchModelFrom(uniprot_id, net, 1, requests)

FetchAnswers == { "200", "404", "500", "exception" }

FetchNets ==
  { [check |-> c, files |-> f] :
      c \in FetchAnswers, f \in [{ "4", "3", "2" } -> FetchAnswers] }

InitFetch ==
  /\ ServiceInit
  /\ ps = Idle
  /\ rt = Idle
  /\ vz \in { [op |-> "input", uniprot_id |-> id, net |-> net] :
                id \in { <<"P","0","4","6","3","7">>, <<"Q","9","Y","6","K","9">> }, net \in FetchNets }
  /\ ad = Idle
  /\ ch = Idle
  /\ nt = Idle
  /\ th = Idle
  /\ vs = Idle
  /\ ss = Idle
  /\ dd = Idle

FetchAlphafoldStructure ==
  /\ vz.op = "input"
  /\ LET r == fetch_alphafold_structure(vz.uniprot_id, vz.net)
     IN vz' = [op |-> "fetched", uniprot_id |-> vz.uniprot_id, net |-> vz.net,
               ret |-> r.ret, requests |-> r.requests]
  /\ UNCHANGED <<cache, first_ret, last, vs, ss, dd, ad, ch, nt, th, ps, rt>>

NextFetch == FetchAlphafoldStructure

SpecFetch == InitFetch /\ [][NextFetch]_vars

Fetched == vz.op = "fetched"

\* the versions whose model file was requested, in request order
VersionsRequested ==
  [i \in 1..(Len(vz.requests) - 1) |->
     CHOOSE v \in { "4", "3", "2" } : vz.requests[i + 1] = ModelUrl(vz.uniprot_id, v)]

DescendingOrder == << "4", "3", "2" >>

\* C24: fetch_alphafold_structure requests the model files in the order v4,
\* v3, v2, stops at the first 200 response and returns its text, and returns
\* nothing if all three fail; when the preliminary prediction check is not 200
\* it returns nothing without requesting any model file.
C24_FetchOrder ==
  Fetched =>
    LET n == Len(VersionsRequested)
        failed(v) == vz.net.files[v] /= "200"
    IN /\ vz.requests[1] = PredictionUrl(vz.uniprot_id)
       /\ \A i \in 2..Len(vz.requests) :
            \E v \in { "4", "3", "2" } : vz.requests[i] = ModelUrl(vz.uniprot_id, v)
       /\ VersionsRequested = SubSeq(DescendingOrder, 1, n)
       /\ vz.net.check /= "200" => (n = 0 /\ vz.ret = FetchNone)
       /\ \A i \in 1..n :
            vz.net.files[VersionsRequested[i]] = "200"
              => (i = n /\ vz.ret = [text |-> ModelText(vz.uniprot_id, VersionsRequested[i])])
       /\ (\A v \in { "4", "3", "2" } : failed(v)) => vz.ret = FetchNone
       /\ (vz.net.check = "200" /\ \A v \in { "4", "3", "2" } : vz.net.files[v] \in { "404", "500" })
            => n = 3
       /\ vz.ret /= FetchNone => (n >= 1 /\ vz.net.files[VersionsRequested[n]] = "200")

\* v4 and v3 answer 404 and 500, v2 answers 200: three files requested, the text of v2 returned
C24_Witness ==
  /\ Fetched
  /\ vz.net.check = "200"
  /\ vz.net.files["4"] = "404"
  /\ vz.net.files["3"] = "500"
  /\ vz.net.files["2"] = "200"
  /\ Len(vz.requests) = 4
  /\ vz.ret = [text |-> ModelText(vz.uniprot_id, "2")]

----------------------------------------------------------------------------
(* the shape of the record's sections *)

\* a call of the service returned a record
RecordReturned == last.op /= "init" /\ IsRecord(last.ret)

StructureShaped == IsDict(last.ret.structure) /\ Has(last.ret.structure, "structures")

InteractionsShaped ==
  IsDict(last.ret.interactions) /\ Has(last.ret.interactions, "interactions")

DiseaseDrugShaped ==
  /\ IsDict(last.ret.disease_drug)
  /\ Has(last.ret.disease_drug, "diseases")
  /\ Has(last.ret.disease_drug, "drugs")

\* C25: in every record get_protein_data returns, whether each section
\* adapter succeeded, returned an error marker or raised, structure is a
\* mapping with a structures list, interactions is a mapping with an
\* interactions list, and disease_drug is a mapping with a diseases list and a
\* drugs list.
C25_RecordShape ==
  RecordReturned => (StructureShaped /\ InteractionsShaped /\ DiseaseDrugShaped)

----------------------------------------------------------------------------
(* get_protein_data under adapters that raise or return a value that is not
   a dict (protein_data_service.py lines 36-64 and 157-162) *)

\* what an adapter can hand back besides its normal answer: an exception,
\* None, an empty list, a non-empty list
Malformed(v) == { Raise, Ret(PyNone), Ret([pylist |-> <<>>]), Ret([pylist |-> <<v>>]) }

FaultUniProt(query) == { Ret(U_Full), Ret(UniProtError(query)) } \cup Malformed(U_Full)
FaultNcbi(query) ==
  { Ret(N_TP53), Ret(NcbiError(query)) } \cup Malformed(N_TP53)

GoodMapping ==
  Ret(get_uniprot_mapping(<<"T","P","5","3">>, [search |-> "ok", fetch |-> "ok", id |-> <<>>]))
GoodStructure == get_structure_summary(<<"P","0","4","6","3","7">>, <<"T","P","5","3">>, StructNetOk).ret
GoodInteractions == get_interactions(<<"T","P","5","3">>, "ok")
GoodDiseaseDrug ==
  Ret(get_disease_drug_summary(<<"T","P","5","3">>, [status |-> "404", json |-> PyNone]).ret)

\* the adapters after the identity step: all well, or exactly one of them
\* raising or returning a malformed value
FaultRestOf(good) ==
  {good}
  \cup { [good EXCEPT !.m = f] : f \in Malformed(good.m.v) }
  \cup { [good EXCEPT !.s = f] : f \in Malformed(good.s.v) }
  \cup { [good EXCEPT !.i = f] : f \in Malformed(good.i.v) }
  \cup { [good EXCEPT !.d = f] : f \in Malformed(good.d.v) }

FaultRest ==
  FaultRestOf([m |-> GoodMapping, s |-> GoodStructure,
               i |-> GoodInteractions, d |-> GoodDiseaseDrug])

FaultEnvs(query) ==
  { [u |-> u, n |-> n, m |-> r.m, s |-> r.s, i |-> r.i, d |-> r.d] :
      u \in FaultUniProt(query), n \in FaultNcbi(query), r \in FaultRest }

\* the service before the call: new, or holding the record of an earlier
\* successful get_protein_data("tp53")
EarlierRecord ==
  get_protein_data(EmptyMap, Q_tp53,
                   [u |-> Ret(U_Full), n |-> Ret(N_TP53), m |-> NotCalled,
                    s |-> GoodStructure, i |-> GoodInteractions,
                    d |-> GoodDiseaseDrug]).ret

FaultQueries == { Q_TP53, Q_tp53 }

\* first_ret keeps the cache as it was before the call
InitFaults ==
  /\ \E earlier \in BOOLEAN :
       /\ cache = IF earlier THEN CacheStore(EmptyMap, CacheKey(Q_tp53), EarlierRecord)
                  ELSE EmptyMap
       /\ first_ret = cache
  /\ \E query \in FaultQueries : \E env \in FaultEnvs(query) :
       last = [LastInit EXCEPT !.op = "input", !.query = query, !.env = env]
  /\ vs = Idle /\ ss = Idle /\ dd = Idle /\ ad = Idle /\ ch = Idle
  /\ nt = Idle /\ th = Idle /\ ps = Idle /\ vz = Idle /\ rt = Idle

CallUnderFaults ==
  /\ last.op = "input"
  /\ LET r == get_protein_data(cache, last.query, last.env)
     IN /\ cache' = r.cache
        /\ last' = [last EXCEPT !.op = "get_protein_data",
                                !.repeat = CacheKey(last.query) \in DOMAIN cache,
                                !.ret = r.ret, !.calls = r.calls]
  /\ UNCHANGED <<first_ret, vs, ss, dd, ad, ch, nt, th, ps, vz, rt>>

NextFaults == CallUnderFaults

SpecFaults == InitFaults /\ [][NextFaults]_vars

FaultCalled == last.op = "get_protein_data"

\* the mapping lookup or a section adapter raised or returned no dict
LaterFault(env) ==
  \E a \in {"m", "s", "i", "d"} : env[a].k = "raise" \/ ~IsMapping(env[a].v)

ErrorResult(ret, query) ==
  /\ DOMAIN ret = {"error", "query"}
  /\ ret.query = query

RecordResult(ret, query) ==
  /\ DOMAIN ret = {"query", "basic_info", "structure", "interactions",
                   "disease_drug", "data_source", "ai_generated"}
  /\ ret.query = query
  /\ IsMapping(ret.basic_info)
  /\ Has(ret.basic_info, "data_source")

\* C26: get_protein_data never raises: whatever an adapter raises or returns,
\* the call returns a record or an error result carrying error and query, and
\* an error result leaves the cache as it was
C26_NeverRaises ==
  FaultCalled =>
    \/ /\ ErrorResult(last.ret, last.query)
       /\ cache = first_ret
    \/ /\ RecordResult(last.ret, last.query)
       /\ cache = CacheStore(first_ret, CacheKey(last.query), last.ret)

\* an identity adapter returned None with a record of another query cached:
\* an error result, the cache untouched
C26_Witness ==
  /\ FaultCalled
  /\ ~last.repeat
  /\ last.env.u = Ret(PyNone)
  /\ ErrorResult(last.ret, last.query)
  /\ cache = first_ret
  /\ cache /= EmptyMap

\* a record is still returned when the mapping lookup or a section adapter
\* fails
RecordDespiteLaterFault ==
  /\ FaultCalled
  /\ ~last.repeat
  /\ LaterFault(last.env)
  /\ RecordResult(last.ret, last.query)

----------------------------------------------------------------------------
(* a query asked again after an error result (protein_data_service.py lines
   28-64, 153-162 and 169-180) *)

\* what the adapters answer to one call: each identity adapter returns its
\* summary or an error marker (get_protein_summary turns whatever its body
\* raises into a marker, uniprot_api.py lines 203-257, ncbi_api.py lines
\* 383-413); the structure adapter answers or raises
RetryEnvs(c, query) ==
  IF CacheKey(query) \in DOMAIN c THEN {NoEnv}
  ELSE { [u |-> u, n |-> n, m |-> GoodMapping, s |-> s,
          i |-> GoodInteractions, d |-> GoodDiseaseDrug] :
           u \in { Ret(U_Full), Ret(UniProtError(query)) },
           n \in { Ret(N_TP53), Ret(NcbiError(query)) },
           s \in { GoodStructure, Raise } }

\* rt.failed: the queries whose latest call returned an error result;
\* rt.after_error: the last call was made for such a query
InitRetry ==
  /\ ServiceInit
  /\ rt = [failed |-> {}, after_error |-> FALSE]
  /\ vs = Idle /\ ss = Idle /\ dd = Idle /\ ad = Idle /\ ch = Idle
  /\ nt = Idle /\ th = Idle /\ ps = Idle /\ vz = Idle

Asked(op, query, user_query, env, r, chat) ==
  /\ cache' = r.cache
  /\ first_ret' = IF IsRecord(r.ret) /\ query \notin DOMAIN first_ret
                  THEN Put(first_ret, query, r.ret) ELSE first_ret
  /\ last' = [op |-> op, query |-> query,
              repeat |-> query \in DOMAIN first_ret, env |-> env,
              ret |-> r.ret, calls |-> r.calls,
              user_query |-> user_query, chat |-> chat]
  /\ rt' = [failed |-> IF IsRecord(r.ret) THEN rt.failed \ {query}
                       ELSE rt.failed \cup {query},
            after_error |-> query \in rt.failed]
  /\ UNCHANGED <<vs, ss, dd, ad, ch, nt, th, ps, vz>>

AskDataAgain(query) ==
  \E env \in RetryEnvs(cache, query) :
    Asked("get_protein_data", query, <<>>, env,
          get_protein_data(cache, query, env), PyNone)

AskChatAgain(query, user_query) ==
  \E env \in RetryEnvs(cache, query) :
    LET r == get_protein_data(cache, query, env) IN
    \E sources \in SetOrders(StructureSources(r.ret)) :
      Asked("get_protein_chat_response", query, user_query, env, r,
            get_protein_chat_response(query, r.ret, user_query, sources))

NextRetry ==
  \/ \E query \in Queries : AskDataAgain(query)
  \/ \E query \in Queries : AskChatAgain(query, <<"T","e","l","l"," ","m","e"," ","m","o","r","e">>)

SpecRetry == InitRetry /\ [][NextRetry]_vars

Recovered(env) == ~Has(env.u.v, "error") \/ ~Has(env.n.v, "error")

\* C27: error results are never cached: a query whose latest call returned an
\* error result has no cache entry, the next get_protein_data or
\* get_protein_chat_response for it invokes both identity adapters again, and
\* returns a record when an identity source answers without error by then
C27_ErrorsNotCached ==
  /\ \A query \in rt.failed : CacheKey(query) \notin DOMAIN cache
  /\ rt.after_error =>
       /\ Len(last.calls) >= 2
       /\ last.calls[1] = Call("uniprot", <<last.query>>)
       /\ last.calls[2] = Call("ncbi", <<last.query>>)
       /\ Recovered(last.env) =>
            /\ IsRecord(last.ret)
            /\ last.query \notin rt.failed
            /\ cache[CacheKey(last.query)] = last.ret

\* get_protein_data for a query that failed before, NCBI having recovered
C27_Witness ==
  /\ rt.after_error
  /\ last.op = "get_protein_data"
  /\ Has(last.env.u.v, "error")
  /\ ~Has(last.env.n.v, "error")
  /\ IsRecord(last.ret)

\* the same through the chat handler, and the failure repeated
RecoveredThroughChat ==
  /\ rt.after_error
  /\ last.op = "get_protein_chat_response"
  /\ IsRecord(last.ret)
  /\ Has(last.chat, "response")

FailedAgain ==
  /\ rt.after_error
  /\ ~IsRecord(last.ret)
  /\ Len(last.calls) = 2

----------------------------------------------------------------------------
(* the structure call of get_protein_data (protein_data_service.py lines
   66-86 and 111-140) *)

\* the accession after lines 70-84, from what the adapters answered
ResolvedAccession ==
  IF StartsWith(PrimaryAccession, S_GENE_) /\ PrimaryGeneSymbol /= <<>> /\ MappingReturnedId
  THEN last.env.m.v.uniprot_id
  ELSE PrimaryAccession

ValidAccession(accession) == accession /= <<>> /\ ~StartsWith(accession, S_GENE_)

\* C28: get_protein_data invokes the structure adapter only when the accession
\* after the resolution step is non-empty and does not start with "GENE_";
\* otherwise the structure adapter is not called, the record's structure
\* section holds the empty list, and the interaction and disease-drug adapters
\* are still called
C28_StructureOnlyForAccession ==
  (Reconciled /\ (~Has(UInfo, "error") \/ ~Has(NInfo, "error"))) =>
    /\ CallsTo("structure") = (IF ValidAccession(ResolvedAccession) THEN 1 ELSE 0)
    /\ ~ValidAccession(ResolvedAccession) =>
         /\ IsRecord(last.ret)
         /\ last.ret.structure = [structures |-> <<>>]
         /\ CallsTo("interaction") = 1
         /\ CallsTo("disease_drug") = 1

\* the placeholder stayed because the mapping lookup found nothing: no
\* structure call, the other two sections filled
C28_Witness ==
  /\ Reconciled /\ IsRecord(last.ret)
  /\ StartsWith(ResolvedAccession, S_GENE_)
  /\ CallsTo("mapping") = 1
  /\ CallsTo("structure") = 0
  /\ last.ret.structure = [structures |-> <<>>]
  /\ CallsTo("interaction") = 1
  /\ CallsTo("disease_drug") = 1
  /\ last.ret.disease_drug.diseases /= <<>>

\* the mapping lookup answered with an empty id: the accession is empty
EmptyAccessionSkipsStructure ==
  /\ Reconciled /\ IsRecord(last.ret)
  /\ MappingReturnedId
  /\ ResolvedAccession = <<>>
  /\ CallsTo("structure") = 0
  /\ CallsTo("interaction") = 1

----------------------------------------------------------------------------
(* extraction before merge (protein_data_service.py lines 66-68, 88-94 and
   122-140) *)

\* the arguments of the last call's request to one adapter
ArgsTo(api) ==
  { last.calls[i].args : i \in { j \in 1..Len(last.calls) : last.calls[j].api = api } }

\* the UniProt result is primary and only the NCBI result holds a gene_symbol
SymbolOnlyInSecondary ==
  /\ ~Has(UInfo, "error")
  /\ ~Has(UInfo, "gene_symbol")
  /\ ~Has(NInfo, "error")
  /\ Has(NInfo, "gene_symbol")

\* C29: the gene symbol handed to the interaction and disease-drug adapters is
\* fixed before the secondary merge: it is the primary result's gene_symbol if
\* the primary has that field and the raw query otherwise; a gene_symbol that
\* only the secondary result supplies is written to basic_info and not used
\* for the section lookups
C29_SymbolFixedBeforeMerge ==
  (Reconciled /\ (~Has(UInfo, "error") \/ ~Has(NInfo, "error"))) =>
    /\ \A args \in ArgsTo("interaction") \cup ArgsTo("disease_drug") :
         args[1] = (IF Has(Primary, "gene_symbol") THEN Primary.gene_symbol
                    ELSE last.query)
    /\ ArgsTo("interaction") /= {}
    /\ ArgsTo("disease_drug") /= {}
    /\ SymbolOnlyInSecondary =>
         /\ last.ret.basic_info.gene_symbol = NInfo.gene_symbol
         /\ \A args \in ArgsTo("interaction") \cup ArgsTo("disease_drug") :
              args[1] = last.query

\* "tp53" answered by UniProt with NCBI as secondary: basic_info carries the
\* symbol TP53 while the sections were asked for "tp53"
C29_Witness ==
  /\ Reconciled /\ IsRecord(last.ret)
  /\ SymbolOnlyInSecondary
  /\ last.query = Q_tp53
  /\ last.ret.basic_info.gene_symbol = <<"T","P","5","3">>
  /\ \E args \in ArgsTo("disease_drug") : args[1] = Q_tp53
  /\ \E args \in ArgsTo("interaction") : args[1] = Q_tp53

\* NCBI primary: its own gene symbol is used, whatever the query was
PrimarySymbolUsed ==
  /\ Reconciled /\ IsRecord(last.ret)
  /\ Has(UInfo, "error")
  /\ Has(Primary, "gene_symbol")
  /\ Primary.gene_symbol /= last.query
  /\ \E args \in ArgsTo("interaction") : args[1] = Primary.gene_symbol

----------------------------------------------------------------------------
(* get_disease_drug_summary for the empty gene symbol (disease_drug_api.py
   lines 104-135 and 137-164) *)

SummaryReturned == dd.op = "get_disease_drug_summary"

\* the lists are entries of the static tables
CannedDiseases == \E i \in 1..Len(COMMON_DISEASES) : dd.out.ret.diseases = COMMON_DISEASES[i][2]
CannedDrugs == \E i \in 1..Len(COMMON_DRUGS) : dd.out.ret.drugs = COMMON_DRUGS[i][2]

\* C30: get_disease_drug_summary called with the empty gene symbol returns
\* empty diseases and drugs lists; an entry of the static tables is returned
\* only for a non-empty symbol that contains or is contained in a table key
C30_NoCannedDataWithoutSymbol ==
  SummaryReturned =>
    /\ dd.gene_symbol = <<>> =>
         /\ dd.out.ret.diseases = <<>>
         /\ dd.out.ret.drugs = <<>>
    /\ (CannedDiseases \/ CannedDrugs) =>
         /\ dd.gene_symbol /= <<>>
         /\ \E i \in 1..Len(COMMON_DISEASES) :
              SimilarGene(COMMON_DISEASES[i][1], dd.gene_symbol)

\* what the code returns for the empty symbol when DisGeNET is unreachable:
\* the entries of the first key of each table
EmptySymbolGetsFirstEntries ==
  (SummaryReturned /\ dd.gene_symbol = <<>> /\ dd.answer.status /= "200") =>
    /\ dd.out.ret.diseases = COMMON_DISEASES[1][2]
    /\ dd.out.ret.drugs = COMMON_DRUGS[1][2]

====
